---- MODULE Spec2Model ----
(***************************************************************************)
(* CineWallet: the SQLite tables (cinemas, tickets), the two zustand       *)
(* stores (useCinemas, useTickets), the NotificationManager with the two   *)
(* notification hooks, and the BackupManager.                              *)
(*                                                                         *)
(* Time is counted in hours.  JS null / SQL NULL is Null (NullDate in a    *)
(* timestamp column), a missing argument or JSON field is Undefined        *)
(* (NoDate for a timestamp).  The columns name,                            *)
(* notes, createdAt, updatedAt and the cinema branding columns are not     *)
(* read by any operation below and are left out of the rows.               *)
(***************************************************************************)
EXTENDS Integers, Sequences, FiniteSets, Bags, TLC

VARIABLES
    tickets,       \* table tickets: a set of rows
    cinemas,       \* table cinemas: a set of rows
    items,         \* useTickets.items
    cinemaItems,   \* useCinemas.items
    notifs,        \* the OS's scheduled notifications: a bag of [ticketId, trigger]
    isInitialized, \* NotificationManager.isInitialized
    now,           \* the wall clock
    sqlite,        \* what the SQLite connection and the ORM driver enforce
    app,           \* App: isReady, error, and the next statement of its database setup
    result,        \* outcome of the last completed operation
    call,          \* the store call in flight (markUsed / remove), step by step
    sync,          \* the run of syncNotifications in flight
    sweep,         \* the run of cleanupExpiredNotifications in flight
    backup,        \* the file exportData wrote last
    steps          \* the number of calls made in this session

vars == <<tickets, cinemas, items, cinemaItems, notifs, isInitialized, now,
          sqlite, app, result, call, sync, sweep, backup, steps>>

Null == "null"
Undefined == "undefined"

-----------------------------------------------------------------------------
(* Bounds and program constants                                            *)

MaxNow == 4           \* the clock (in hours) takes the values 0, 12, .. 12 * MaxNow
OneDay == 24
TwoHours == 2
ThreeDays == 3 * OneDay
BACKUP_VERSION == "1.0"

Idle == [pc |-> "idle"]

-----------------------------------------------------------------------------
(* Timestamps                                                              *)

\* A timestamp_ms column is given a Date by the stores.  A row read back from
\* a JSON backup carries the ISO string JSON.stringify made of the Date, and
\* performImport passes it on as it is: whether the driver maps it is not
\* decided by this repository.  A timestamp is Date(t), Iso(t) or NullDate.
Date(t) == <<"date", t>>
Iso(t) == <<"iso", t>>
NullDate == <<"null">>
NoDate == <<"undefined">>
IsIso(v) == v[1] = "iso"
InstantOf(v) == v[2]
ToJSON(v) == IF v[1] = "date" THEN Iso(v[2]) ELSE v
TimestampOk(v) == IsIso(v) => sqlite.isoDates
\* the value the column holds afterwards reads back as a Date
AsStored(v) == IF IsIso(v) THEN Date(InstantOf(v)) ELSE v

-----------------------------------------------------------------------------
(* The tables: src/db/schema.ts and the migration                          *)

Ids(table) == {r.id : r \in table}

\* a cinemas table with its primary key only
CinemaConflictIdOnly(table, row) == \E r \in table : r.id = row.id

\* cinemas: id PRIMARY KEY, slug NOT NULL UNIQUE
CinemaConflict(table, row) ==
    \E r \in table : r.id = row.id \/ r.slug = row.slug

TicketConflictNoQr(table, row) ==
    \E r \in table : r.id = row.id \/ r.code = row.code

\* tickets: id PRIMARY KEY, code UNIQUE, qr_payload UNIQUE
TicketConflict(table, row) ==
    \E r \in table : \/ r.id = row.id
                     \/ r.code = row.code
                     \/ r.qrPayload = row.qrPayload

\* tickets: code, qr_payload, cinema_id, source_file_uri, expires_at, status NOT NULL
TicketNotNull(row) ==
    /\ row.code # Null
    /\ row.qrPayload # Null
    /\ row.cinemaId # Null
    /\ row.sourceFileUri # Null
    /\ row.expiresAt # NullDate
    /\ row.status # Null

\* FOREIGN KEY (cinema_id) REFERENCES cinemas(id): SQLite checks it only on a
\* connection with foreign keys switched on; client.ts opens the database and
\* never sets the pragma, so the connection's default decides.
ForeignKeyOk(cinemaTable, row) ==
    sqlite.foreignKeys => row.cinemaId \in Ids(cinemaTable)

\* db.insert(tickets).values(row): "ok", "conflict" (PRIMARY KEY / UNIQUE) or "error"
InsertTicketOutcome(table, cinemaTable, row) ==
    IF ~TimestampOk(row.expiresAt) \/ ~TimestampOk(row.usedAt) THEN "error"
    ELSE IF ~TicketNotNull(row) THEN "error"
    ELSE IF TicketConflict(table, row) THEN "conflict"
    ELSE IF ~ForeignKeyOk(cinemaTable, row) THEN "error"
    ELSE "ok"

StoredTicket(row) ==
    [row EXCEPT !.expiresAt = AsStored(@), !.usedAt = AsStored(@)]

InsertCinemaOutcome(table, row) ==
    IF ~TimestampOk(row.createdAt) THEN "error"
    ELSE IF CinemaConflict(table, row) THEN "conflict"
    ELSE "ok"

StoredCinema(row) == [row EXCEPT !.createdAt = AsStored(@)]

\* db.delete(cinemas) [.where(id)]: refused when a ticket row references a
\* deleted cinema and foreign keys are on (ON DELETE no action)
DeleteCinemasOk(ticketTable, deleted) ==
    sqlite.foreignKeys => \A t \in ticketTable : t.cinemaId \notin Ids(deleted)

-----------------------------------------------------------------------------
(* The inputs the operations are tried on                                  *)

Clock == {h * (OneDay \div 2) : h \in 0..MaxNow}

\* the defaultCinemas list, cut to one entry, and what the cinema form can send
DefaultCinemas == {[id |-> "c1", slug |-> "ugc-cine-cite", createdAt |-> Date(0)]}
NewCinemas ==
    { [id |-> "c2", slug |-> "pathe", createdAt |-> Date(0)],
      [id |-> "c2", slug |-> "ugc-cine-cite", createdAt |-> Date(0)] }

\* id, code and QR payload of the tickets tried: k1 and k2 share nothing, k3
\* repeats k1's code, k4 repeats k1's QR payload; k2, k3 and k4 share an id
TicketKeys ==
    { [id |-> "t1", code |-> "5CE15A", qrPayload |-> "QR-A", cinemaId |-> "c1", expiresAt |-> 100],
      [id |-> "t2", code |-> "7BF20C", qrPayload |-> "QR-B", cinemaId |-> "c2", expiresAt |-> 26],
      [id |-> "t2", code |-> "5CE15A", qrPayload |-> "QR-B", cinemaId |-> "c2", expiresAt |-> 26],
      [id |-> "t2", code |-> "7BF20C", qrPayload |-> "QR-A", cinemaId |-> "c2", expiresAt |-> 26] }

TicketIds == {k.id : k \in TicketKeys}

\* the optional status / usedAt arguments of useTickets.add
StatusArgs(t) ==
    { [status |-> Undefined, usedAt |-> NoDate],
      [status |-> "USED", usedAt |-> Date(t)],
      [status |-> Undefined, usedAt |-> Date(t)] }

NewTickets(t) ==
    { [id |-> k.id, code |-> k.code, qrPayload |-> k.qrPayload, cinemaId |-> k.cinemaId,
       sourceFileUri |-> "file://ticket.pdf", expiresAt |-> Date(k.expiresAt),
       status |-> a.status, usedAt |-> a.usedAt] : k \in TicketKeys, a \in StatusArgs(t) }

-----------------------------------------------------------------------------
(* NotificationManager: src/navigation/index.tsx                           *)

MaxCopies == 2        \* a reminder is registered at most this many times over

Copies(bag, n) == IF n \in DOMAIN bag THEN bag[n] ELSE 0

\* the three instants scheduleTicketExpiration computes from expiresAt
Triggers(expiresAt) ==
    << expiresAt - ThreeDays, expiresAt - OneDay, expiresAt - TwoHours >>

InFutureOrNow(trigger, t) == trigger >= t

\* notification.trigger > now
InFuture(trigger, t) == trigger > t

TwoReminders(expiresAt, t) ==
    SelectSeq(SubSeq(Triggers(expiresAt), 2, 3), LAMBDA tr : InFuture(tr, t))

\* the triggers scheduleTicketExpiration registers, in order
Registered(expiresAt, t) ==
    SelectSeq(Triggers(expiresAt), LAMBDA tr : InFuture(tr, t))

Reminders(ticketId, expiresAt, t) ==
    LET reg == Registered(expiresAt, t)
    IN  {[ticketId |-> ticketId, trigger |-> reg[i]] : i \in DOMAIN reg}

\* initialize(): true at once when already initialized; otherwise the device
\* check and the permission answer decide, and success is remembered
InitializeResult(granted) == isInitialized \/ granted

\* scheduleTicketExpiration: the scheduled bag afterwards
ScheduleTicketExpiration(bag, ticketId, expiresAt, t, granted) ==
    IF InitializeResult(granted)
    THEN bag (+) SetToBag(Reminders(ticketId, InstantOf(expiresAt), t))
    ELSE bag

CanSchedule(bag, ticketId, expiresAt, t) ==
    \A n \in Reminders(ticketId, InstantOf(expiresAt), t) : Copies(bag, n) < MaxCopies

\* cancelTicketNotifications: every scheduled notification whose data.ticketId
\* is ticketId is cancelled
CancelTicketNotifications(bag, ticketId) ==
    [n \in {m \in DOMAIN bag : m.ticketId # ticketId} |-> bag[n]]

-----------------------------------------------------------------------------
(* App: the database setup at startup and what is rendered                  *)

\* the statements the startup effect awaits, in order
SetupStatements ==
    <<"CREATE TABLE cinemas", "CREATE TABLE tickets", "CREATE INDEX idx_tickets_code",
      "CREATE INDEX idx_tickets_status", "CREATE INDEX idx_tickets_expires">>

\* the messages a failing statement can carry: e.message or String(e)
SetupErrors == {"", "database is locked"}

\* useState(false), useState(null), and the effect before its first statement
Launched == [isReady |-> FALSE, error |-> Null, next |-> 1]

\* the setup has gone through: setIsReady(true)
SetUp == [isReady |-> TRUE, error |-> Null, next |-> Len(SetupStatements) + 1]

\* the catch block: setError(message), and the effect is over
SetupCaught(a, message) ==
    [a EXCEPT !.error = message, !.next = Len(SetupStatements) + 1]

\* a setup whose setIsReady(true) is not skipped by a rejection
SetupReadyAnyway(a, outcome) ==
    IF outcome = "ok"
    THEN [a EXCEPT !.next = @ + 1, !.isReady = (a.next = Len(SetupStatements))]
    ELSE [SetupCaught(a, outcome) EXCEPT !.isReady = TRUE]

\* one awaited statement of the effect: it resolves (outcome "ok") and the
\* effect goes on, to setIsReady(true) after the last one; or it rejects
\* with a message
SetupStep(a, outcome) ==
    IF outcome = "ok"
    THEN [a EXCEPT !.next = @ + 1, !.isReady = (a.next = Len(SetupStatements))]
    ELSE SetupCaught(a, outcome)

\* what App returns: if (error) ... if (!isReady) ... <RootNavigation />
Screen(a) ==
    IF a.error # Null /\ a.error # "" THEN "Erreur de démarrage"
    ELSE IF ~a.isReady THEN "Initialisation"
    ELSE "RootNavigation"

\* the screens, the stores behind them and the hooks are there
Usable == Screen(app) = "RootNavigation"

-----------------------------------------------------------------------------
(* useTickets and useCinemas, each call as one step                        *)

NewRow(t) ==
    [t EXCEPT !.status = IF @ = Undefined THEN "PENDING" ELSE @,
              !.usedAt = IF @ = NoDate THEN NullDate ELSE @]

Settled == Usable /\ call = Idle /\ sync = Idle /\ sweep = Idle

MaxSteps == 2         \* calls made in one session

\* a call is made when no other is running
Ready == Settled /\ steps < MaxSteps

\* what the last completed call was given and how it ended
Outcome(op, out, arg, info) == [op |-> op, out |-> out, arg |-> arg, info |-> info]

\* useTickets.add
AddTicket(t, granted) ==
    LET row == NewRow(t)
        out == InsertTicketOutcome(tickets, cinemas, row)
    IN  /\ Ready
        /\ steps' = steps + 1
        /\ IF out = "ok"
           THEN /\ CanSchedule(notifs, row.id, row.expiresAt, now)
                /\ tickets' = tickets \cup {StoredTicket(row)}
                /\ notifs' = ScheduleTicketExpiration(notifs, row.id, row.expiresAt, now, granted)
                /\ isInitialized' = InitializeResult(granted)
                /\ items' = tickets'
                /\ result' = Outcome("add", "ok", t.code, t.qrPayload)
           ELSE /\ result' = Outcome("add", "threw", t.code, t.qrPayload)
                /\ UNCHANGED <<tickets, notifs, isInitialized, items>>
        /\ UNCHANGED <<cinemas, cinemaItems, now, sqlite, app, call, sync, sweep, backup>>

\* db.update(tickets).set({status: 'USED', usedAt: new Date()}).where(id)
MarkRowUsed(r, id, t) ==
    IF r.id = id THEN [r EXCEPT !.status = "USED", !.usedAt = Date(t)] ELSE r

\* useTickets.markUsed
MarkUsed(id) ==
    /\ Ready
    /\ steps' = steps + 1
    /\ tickets' = {MarkRowUsed(r, id, now) : r \in tickets}
    /\ notifs' = CancelTicketNotifications(notifs, id)
    /\ items' = tickets'
    /\ result' = Outcome("markUsed", "ok", id, "")
    /\ UNCHANGED <<cinemas, cinemaItems, isInitialized, now, sqlite, app, call, sync, sweep, backup>>

\* useTickets.remove
RemoveTicket(id) ==
    /\ Ready
    /\ steps' = steps + 1
    /\ notifs' = CancelTicketNotifications(notifs, id)
    /\ tickets' = {r \in tickets : r.id # id}
    /\ items' = tickets'
    /\ result' = Outcome("remove", "ok", id, "")
    /\ UNCHANGED <<cinemas, cinemaItems, isInitialized, now, sqlite, app, call, sync, sweep, backup>>

\* useTickets.refresh
RefreshTickets ==
    /\ Ready
    /\ steps' = steps + 1
    /\ items' = tickets
    /\ result' = Outcome("refresh", "ok", "", "")
    /\ UNCHANGED <<tickets, cinemas, cinemaItems, notifs, isInitialized, now, sqlite, app,
                   call, sync, sweep, backup>>

\* useCinemas.add
AddCinema(c) ==
    /\ Ready
    /\ steps' = steps + 1
    /\ IF InsertCinemaOutcome(cinemas, c) = "ok"
       THEN /\ cinemas' = cinemas \cup {StoredCinema(c)}
            /\ cinemaItems' = cinemas'
            /\ result' = Outcome("addCinema", "ok", c.id, c.slug)
       ELSE /\ result' = Outcome("addCinema", "threw", c.id, c.slug)
            /\ UNCHANGED <<cinemas, cinemaItems>>
    /\ UNCHANGED <<tickets, items, notifs, isInitialized, now, sqlite, app, call, sync, sweep, backup>>

\* useCinemas.remove
RemoveCinema(id) ==
    LET deleted == {c \in cinemas : c.id = id}
    IN  /\ Ready
        /\ steps' = steps + 1
        /\ IF DeleteCinemasOk(tickets, deleted)
           THEN /\ cinemas' = cinemas \ deleted
                /\ cinemaItems' = cinemas'
                /\ result' = Outcome("removeCinema", "ok", id, "")
           ELSE /\ result' = Outcome("removeCinema", "threw", id, "")
                /\ UNCHANGED <<cinemas, cinemaItems>>
        /\ UNCHANGED <<tickets, items, notifs, isInitialized, now, sqlite, app, call, sync, sweep, backup>>

\* initializeDefaultCinemas: the defaults are inserted into an empty table only
InitializeDefaultCinemas(table) ==
    IF table = {} THEN DefaultCinemas ELSE table

\* resetCinemasToDefault
ResetCinemasToDefault ==
    /\ Ready
    /\ steps' = steps + 1
    /\ IF DeleteCinemasOk(tickets, cinemas)
       THEN /\ cinemas' = InitializeDefaultCinemas({})
            /\ result' = Outcome("resetCinemas", "ok", "", "")
       ELSE /\ result' = Outcome("resetCinemas", "threw", "", "")
            /\ UNCHANGED cinemas
    /\ UNCHANGED <<tickets, items, cinemaItems, notifs, isInitialized, now, sqlite, app,
                   call, sync, sweep, backup>>

-----------------------------------------------------------------------------
(* BackupManager: src/utils/barcode.ts                                     *)

MaxBackupTickets == 1    \* rows in the data.tickets of a file tried by importData

\* a JSON value with its typeof; an array holds rows without repetition
Str(v) == [type |-> "string", val |-> v]
Arr(rows) == [type |-> "array", val |-> rows]
Obj(fields) == [type |-> "object", val |-> fields]
Missing(v) == [type |-> "undefined", val |-> v]

ExportOptions ==
    [includeUsedTickets : BOOLEAN, includeExpiredTickets : BOOLEAN,
     includeCinemas : BOOLEAN, includePersonalData : BOOLEAN]

DefaultOptions ==
    [includeUsedTickets |-> TRUE, includeExpiredTickets |-> TRUE,
     includeCinemas |-> TRUE, includePersonalData |-> FALSE]

\* JSON.stringify of a row: every Date becomes its ISO string
TicketJSON(r) == [r EXCEPT !.expiresAt = ToJSON(@), !.usedAt = ToJSON(@)]
CinemaJSON(c) == [c EXCEPT !.createdAt = ToJSON(@)]

\* exportData, lines 223-241: the tickets that go into the file
FilteredTickets(ticketTable, opts, t) ==
    LET f1 == IF opts.includeUsedTickets THEN ticketTable
              ELSE {r \in ticketTable : r.status # "USED"}
        f2 == IF opts.includeExpiredTickets THEN f1
              ELSE {r \in f1 : InstantOf(r.expiresAt) > t}
    IN  IF opts.includePersonalData THEN f2
        ELSE {[r EXCEPT !.sourceFileUri = Null] : r \in f2}

\* an envelope whose metadata counts every stored cinema, included or not
ExportEnvelopeAllCinemas(ticketTable, cinemaTable, opts, t) ==
    LET filtered == FilteredTickets(ticketTable, opts, t)
        outCinemas == IF opts.includeCinemas THEN cinemaTable ELSE {}
    IN  [ version |-> Str(BACKUP_VERSION),
          exportDate |-> Str(Iso(t)),
          appInfo |-> Obj([name |-> Str("CineWallet")]),
          tickets |-> Arr({TicketJSON(r) : r \in filtered}),
          cinemas |-> Arr({CinemaJSON(c) : c \in outCinemas}),
          metadata |-> Obj([ totalTickets |-> Cardinality(filtered),
                             totalCinemas |-> Cardinality(cinemaTable),
                             pendingTickets |-> Cardinality({r \in filtered : r.status = "PENDING"}),
                             usedTickets |-> Cardinality({r \in filtered : r.status = "USED"}) ]) ]

\* exportData, lines 244-264: the envelope written to the file
ExportEnvelope(ticketTable, cinemaTable, opts, t) ==
    LET filtered == FilteredTickets(ticketTable, opts, t)
        outCinemas == IF opts.includeCinemas THEN cinemaTable ELSE {}
    IN  [ version |-> Str(BACKUP_VERSION),
          exportDate |-> Str(Iso(t)),
          appInfo |-> Obj([name |-> Str("CineWallet")]),
          tickets |-> Arr({TicketJSON(r) : r \in filtered}),
          cinemas |-> Arr({CinemaJSON(c) : c \in outCinemas}),
          metadata |-> Obj([ totalTickets |-> Cardinality(filtered),
                             totalCinemas |-> IF opts.includeCinemas
                                              THEN Cardinality(cinemaTable) ELSE 0,
                             pendingTickets |-> Cardinality({r \in filtered : r.status = "PENDING"}),
                             usedTickets |-> Cardinality({r \in filtered : r.status = "USED"}) ]) ]

\* validateBackupData
ValidateBackupData(data) ==
    /\ data.version.type = "string"
    /\ data.exportDate.type = "string"
    /\ data.appInfo.type = "object"
    /\ data.appInfo.val.name.type = "string"
    /\ data.tickets.type = "array"
    /\ data.cinemas.type = "array"
    /\ data.metadata.type = "object"
    /\ "totalTickets" \in DOMAIN data.metadata.val

\* a check that lets every version through
AnyVersion(version) == TRUE

\* isCompatibleVersion
IsCompatibleVersion(version) == version = BACKUP_VERSION

RECURSIVE ImportCinemas(_, _)
\* performImport, lines 441-462: insert, skipping a row on conflict or error
ImportCinemas(table, rows) ==
    IF rows = {} THEN table
    ELSE LET c == CHOOSE x \in rows : TRUE
             next == IF InsertCinemaOutcome(table, c) = "ok"
                     THEN table \cup {StoredCinema(c)} ELSE table
         IN  ImportCinemas(next, rows \ {c})

RECURSIVE ImportTicketsUpsert(_, _, _)
\* an import that overwrites the stored row of the same id
ImportTicketsUpsert(table, cinemaTable, rows) ==
    IF rows = {} THEN table
    ELSE LET r == CHOOSE x \in rows : TRUE
             kept == {x \in table : x.id # r.id}
             next == IF InsertTicketOutcome(kept, cinemaTable, r) = "ok"
                     THEN kept \cup {StoredTicket(r)} ELSE table
         IN  ImportTicketsUpsert(next, cinemaTable, rows \ {r})

RECURSIVE ImportTickets(_, _, _)
\* performImport, lines 465-483
ImportTickets(table, cinemaTable, rows) ==
    IF rows = {} THEN table
    ELSE LET r == CHOOSE x \in rows : TRUE
             next == IF InsertTicketOutcome(table, cinemaTable, r) = "ok"
                     THEN table \cup {StoredTicket(r)} ELSE table
         IN  ImportTickets(next, cinemaTable, rows \ {r})

\* performImport: the two tables afterwards
PerformImport(data, replaceExisting) ==
    LET t0 == IF replaceExisting THEN {} ELSE tickets
        c0 == IF replaceExisting THEN {} ELSE cinemas
        c1 == ImportCinemas(c0, data.cinemas.val)
    IN  [cinemas |-> c1, tickets |-> ImportTickets(t0, c1, data.tickets.val)]

ImportOp(replaceExisting) == IF replaceExisting THEN "importReplace" ELSE "importMerge"

\* the kind of file picked: "shape" (not a backup envelope), "version" (an
\* envelope of another version) or "backup"
FileKind(data) ==
    IF \/ data.version.type # "string"
       \/ data.tickets.type # "array"
       \/ data.cinemas.type # "array"
       \/ data.metadata.type # "object"
       \/ "totalTickets" \notin DOMAIN data.metadata.val
    THEN "shape"
    ELSE IF data.version.val # "1.0" THEN "version" ELSE "backup"

\* importData: answer is what the user does ("cancel" in the picker, "refuse"
\* or "confirm" in the confirmation dialog)
ImportData(data, replaceExisting, answer) ==
    /\ Ready
    /\ steps' = steps + 1
    /\ IF /\ answer = "confirm"
          /\ ValidateBackupData(data)
          /\ IsCompatibleVersion(data.version.val)
       THEN LET after == PerformImport(data, replaceExisting)
            IN  /\ tickets' = after.tickets
                /\ cinemas' = after.cinemas
                /\ result' = Outcome(ImportOp(replaceExisting), "true", FileKind(data), answer)
       ELSE /\ result' = Outcome(ImportOp(replaceExisting), "false",
                                 IF answer = "cancel" THEN "" ELSE FileKind(data), answer)
            /\ UNCHANGED <<tickets, cinemas>>
    /\ UNCHANGED <<items, cinemaItems, notifs, isInitialized, now, sqlite, app, call, sync,
                   sweep, backup>>

\* exportData as called from the backup screen
ExportData(opts) ==
    /\ Ready
    /\ steps' = steps + 1
    /\ backup' = ExportEnvelope(tickets, cinemas, opts, now)
    /\ result' = Outcome("export", "ok", "", "")
    /\ UNCHANGED <<tickets, cinemas, items, cinemaItems, notifs, isInitialized, now,
                   sqlite, app, call, sync, sweep>>

-----------------------------------------------------------------------------
(* The files importData is tried on                                        *)

TicketRows == {StoredTicket(NewRow(n)) : n \in NewTickets(0)}

\* tables of at most k rows that satisfy the PRIMARY KEY and UNIQUE constraints
TicketTables(k) ==
    {T \in SUBSET TicketRows :
        /\ Cardinality(T) <= k
        /\ \A a, b \in T : a # b => /\ a.id # b.id
                                      /\ a.code # b.code
                                      /\ a.qrPayload # b.qrPayload}

SnapshotCinemas ==
    DefaultCinemas \cup {[id |-> "c2", slug |-> "pathe", createdAt |-> Date(0)]}

FileOptions ==
    { DefaultOptions,
      [DefaultOptions EXCEPT !.includePersonalData = TRUE],
      [DefaultOptions EXCEPT !.includePersonalData = TRUE, !.includeCinemas = FALSE] }

\* rows a backup was taken of: two tickets, each still PENDING or already USED
BackupRows ==
    {r \in TicketRows : /\ r.code = (IF r.id = "t1" THEN "5CE15A" ELSE "7BF20C")
                        /\ r.qrPayload = (IF r.id = "t1" THEN "QR-A" ELSE "QR-B")
                        /\ (r.status = "USED") <=> (r.usedAt # NullDate)}

\* what exportData writes for these tables
ExportedFiles ==
    {ExportEnvelope(T, SnapshotCinemas, o, 0) :
        T \in {B \in TicketTables(MaxBackupTickets) : B \subseteq BackupRows}, o \in FileOptions}

FullFile ==
    ExportEnvelope({r \in TicketRows : r.id = "t1" /\ r.status = "PENDING" /\ r.usedAt = NullDate},
                   SnapshotCinemas,
                   [DefaultOptions EXCEPT !.includePersonalData = TRUE], 0)

\* files that are not a backup of the supported version
BrokenFiles ==
    { [FullFile EXCEPT !.version = Missing("")],
      [FullFile EXCEPT !.tickets = Missing({})],
      [FullFile EXCEPT !.metadata = Missing(<<>>)],
      [FullFile EXCEPT !.metadata = Obj([totalCinemas |-> 2])],
      [FullFile EXCEPT !.version = Str("0.9")] }

BackupFiles == ExportedFiles \cup BrokenFiles

NoFile ==
    [FullFile EXCEPT !.version = Missing(""), !.tickets = Missing({}),
                     !.cinemas = Missing({}), !.metadata = Missing(<<>>)]

Answers == {"cancel", "refuse", "confirm"}

\* a file picked, the mode chosen on the backup screen and the user's answer
ImportInputs ==
    {<<f, r, "confirm">> : f \in BackupFiles, r \in BOOLEAN}
        \cup {<<f, r, a>> : f \in {FullFile}, r \in BOOLEAN, a \in Answers}

-----------------------------------------------------------------------------
(* The application with every call run to its end before the next begins   *)

\* rows as the add-ticket form and markUsed leave them
FormRows == {r \in TicketRows : (r.status = "USED") <=> (r.usedAt # NullDate)}

CinemaTables ==
    {C \in SUBSET (DefaultCinemas \cup NewCinemas) :
        \A a, b \in C : a # b => (a.id # b.id /\ a.slug # b.slug)}

MaxRows == 2          \* ticket rows in the database when the session starts

\* the database file an earlier session left behind
PersistedDatabase ==
    /\ cinemas \in CinemaTables
    /\ tickets \in {T \in TicketTables(MaxRows) :
                      T \subseteq FormRows /\ \A r \in T : r.cinemaId \in Ids(cinemas)}

\* the state of a process that has just started: create(...) of the two
\* stores, the NotificationManager constructor, nothing scheduled
Constructed ==
    /\ items = {}
    /\ cinemaItems = {}
    /\ notifs = EmptyBag
    /\ isInitialized = FALSE
    /\ sqlite \in [foreignKeys : BOOLEAN, isoDates : BOOLEAN]
    /\ result = Outcome("", "", "", "")
    /\ call = Idle
    /\ sync = Idle
    /\ sweep = Idle
    /\ backup = NoFile
    /\ steps = 0

\* ... and App has set the database up and renders the navigation
Started == Constructed /\ app = SetUp

Init ==
    /\ PersistedDatabase
    /\ Started
    /\ now = 0

\* initializeDefaultCinemas, called on its own
InitDefaults ==
    /\ Ready
    /\ steps' = steps + 1
    /\ cinemas' = InitializeDefaultCinemas(cinemas)
    /\ result' = Outcome("initDefaults", "ok", "", "")
    /\ UNCHANGED <<tickets, items, cinemaItems, notifs, isInitialized, now, sqlite, app,
                   call, sync, sweep, backup>>

\* useCinemas.refresh
RefreshCinemas ==
    /\ Ready
    /\ steps' = steps + 1
    /\ cinemaItems' = cinemas
    /\ result' = Outcome("refreshCinemas", "ok", "", "")
    /\ UNCHANGED <<tickets, cinemas, items, notifs, isInitialized, now, sqlite, app,
                   call, sync, sweep, backup>>

Next ==
    \/ \E t \in NewTickets(now), granted \in BOOLEAN : AddTicket(t, granted)
    \/ \E id \in TicketIds : MarkUsed(id)
    \/ \E id \in TicketIds : RemoveTicket(id)
    \/ RefreshTickets
    \/ \E c \in NewCinemas : AddCinema(c)
    \/ \E id \in {"c1", "c2"} : RemoveCinema(id)
    \/ RefreshCinemas
    \/ InitDefaults
    \/ ResetCinemasToDefault
    \/ \E in \in ImportInputs : ImportData(in[1], in[2], in[3])

Spec == Init /\ [][Next]_vars

-----------------------------------------------------------------------------
(* The home screen at work: markUsed and remove one await at a time, next to *)
(* the hooks useNotificationScheduler and useNotificationCleanup             *)

CanStart == Usable /\ steps < MaxSteps

\* markUsed: await db.update(...)
MarkUsedUpdate(id) ==
    /\ call = Idle
    /\ CanStart
    /\ steps' = steps + 1
    /\ tickets' = {MarkRowUsed(r, id, now) : r \in tickets}
    /\ call' = [pc |-> "cancel", op |-> "markUsed", id |-> id]
    /\ UNCHANGED <<cinemas, items, cinemaItems, notifs, isInitialized, now, sqlite, app,
                   result, sync, sweep, backup>>

\* markUsed: await notificationManager.cancelTicketNotifications(id)
MarkUsedCancel ==
    /\ call.pc = "cancel"
    /\ notifs' = CancelTicketNotifications(notifs, call.id)
    /\ call' = [call EXCEPT !.pc = "refresh"]
    /\ UNCHANGED <<tickets, cinemas, items, cinemaItems, isInitialized, now, sqlite, app,
                   result, sync, sweep, backup, steps>>

\* remove: await notificationManager.cancelTicketNotifications(id)
RemoveCancel(id) ==
    /\ call = Idle
    /\ CanStart
    /\ steps' = steps + 1
    /\ notifs' = CancelTicketNotifications(notifs, id)
    /\ call' = [pc |-> "delete", op |-> "remove", id |-> id]
    /\ UNCHANGED <<tickets, cinemas, items, cinemaItems, isInitialized, now, sqlite, app,
                   result, sync, sweep, backup>>

\* remove: await db.delete(tickets).where(id)
RemoveDelete ==
    /\ call.pc = "delete"
    /\ tickets' = {r \in tickets : r.id # call.id}
    /\ call' = [call EXCEPT !.pc = "refresh"]
    /\ UNCHANGED <<cinemas, items, cinemaItems, notifs, isInitialized, now, sqlite, app,
                   result, sync, sweep, backup, steps>>

\* markUsed and remove: await get().refresh(), after which the call returns
CallRefresh ==
    /\ call.pc = "refresh"
    /\ items' = tickets
    /\ result' = Outcome(call.op, "ok", call.id, "")
    /\ call' = Idle
    /\ UNCHANGED <<tickets, cinemas, cinemaItems, notifs, isInitialized, now, sqlite, app,
                   sync, sweep, backup, steps>>

\* the effect of useNotificationScheduler runs with the tickets it was
\* rendered with and calls syncNotifications when cinemas are loaded
SyncStart ==
    /\ sync = Idle
    /\ CanStart
    /\ steps' = steps + 1
    /\ cinemaItems # {}
    /\ sync' = [pc |-> "read", snap |-> items]
    /\ UNCHANGED <<tickets, cinemas, items, cinemaItems, notifs, isInitialized, now,
                   sqlite, app, result, call, sweep, backup>>

\* what is left of a run: tickets to schedule, orphans to cancel
SyncLoop(todo, orphans) ==
    IF todo = {} /\ orphans = {} THEN Idle
    ELSE [pc |-> "loop", todo |-> todo, orphans |-> orphans]

\* syncNotifications: getScheduledNotifications() answers
SyncRead ==
    /\ sync.pc = "read"
    /\ LET notificationTicketIds == {n.ticketId : n \in DOMAIN notifs}
           pending == {t \in sync.snap : t.status = "PENDING"}
       IN  sync' = SyncLoop({t \in pending : t.id \notin notificationTicketIds},
                            notificationTicketIds \ {t.id : t \in pending})
    /\ UNCHANGED <<tickets, cinemas, items, cinemaItems, notifs, isInitialized, now,
                   sqlite, app, result, call, sweep, backup, steps>>

\* syncNotifications: scheduleTicketExpiration for a PENDING ticket of the
\* snapshot that had no reminder when the list was read
SyncSchedule(granted) ==
    /\ sync.pc = "loop"
    /\ \E t \in sync.todo :
          /\ CanSchedule(notifs, t.id, t.expiresAt, now)
          /\ notifs' = ScheduleTicketExpiration(notifs, t.id, t.expiresAt, now, granted)
          /\ isInitialized' = InitializeResult(granted)
          /\ sync' = SyncLoop(sync.todo \ {t}, sync.orphans)
    /\ UNCHANGED <<tickets, cinemas, items, cinemaItems, now, sqlite, app, result, call,
                   sweep, backup, steps>>

\* syncNotifications: cancelTicketNotifications for an id that had reminders
\* and is not a PENDING ticket of the snapshot
SyncCancelOrphan ==
    /\ sync.pc = "loop"
    /\ sync.todo = {}
    /\ \E id \in sync.orphans :
          /\ notifs' = CancelTicketNotifications(notifs, id)
          /\ sync' = SyncLoop({}, sync.orphans \ {id})
    /\ UNCHANGED <<tickets, cinemas, items, cinemaItems, isInitialized, now, sqlite, app,
                   result, call, sweep, backup, steps>>

\* cleanupExpiredNotifications is called (on mount, then every six hours)
SweepStart ==
    /\ sweep = Idle
    /\ CanStart
    /\ steps' = steps + 1
    /\ sweep' = [pc |-> "read"]
    /\ UNCHANGED <<tickets, cinemas, items, cinemaItems, notifs, isInitialized, now,
                   sqlite, app, result, call, sync, backup>>

\* a sweep that lets reminders stay for a second day
ExpiredTwoDays(bag, expiredThreshold) ==
    {n.ticketId : n \in {m \in DOMAIN bag : m.trigger < expiredThreshold - OneDay}}

\* ids of the tickets that have a reminder due before the threshold
Expired(bag, expiredThreshold) ==
    {n.ticketId : n \in {m \in DOMAIN bag : m.trigger < expiredThreshold}}

\* what is left of a sweep that started at time `at` and found reminders of
\* the tickets `found` expired
SweepLoop(ids, at, found) ==
    IF ids = {} THEN Idle ELSE [pc |-> "cancel", ids |-> ids, at |-> at, found |-> found]

SweepOutcome(at, found) == Outcome("sweep", "ok", "", [at |-> at, found |-> found])

\* cleanupExpiredNotifications: the list is read and the threshold taken
SweepRead ==
    /\ sweep.pc = "read"
    /\ LET found == Expired(notifs, now - OneDay)
       IN  /\ sweep' = SweepLoop(found, now, found)
           /\ result' = IF found = {} THEN SweepOutcome(now, found) ELSE result
    /\ UNCHANGED <<tickets, cinemas, items, cinemaItems, notifs, isInitialized, now,
                   sqlite, app, call, sync, backup, steps>>

\* cleanupExpiredNotifications: cancelTicketNotifications(ticketId) for an
\* expired notification of the list
SweepCancel ==
    /\ sweep.pc = "cancel"
    /\ \E id \in sweep.ids :
          /\ notifs' = CancelTicketNotifications(notifs, id)
          /\ sweep' = SweepLoop(sweep.ids \ {id}, sweep.at, sweep.found)
          /\ result' = IF sweep.ids = {id} THEN SweepOutcome(sweep.at, sweep.found) ELSE result
    /\ UNCHANGED <<tickets, cinemas, items, cinemaItems, isInitialized, now, sqlite, app,
                   call, sync, backup, steps>>

\* the reminders earlier sessions registered at time 0 for the PENDING rows of
\* the table they had; nothing cancels them when an import replaces the table
EarlierReminders(table) ==
    SetToBag(UNION {Reminders(r.id, InstantOf(r.expiresAt), 0) :
                        r \in {x \in table : x.status = "PENDING"}})

\* the home screen is mounted: both stores are loaded, no call is running
InitSync ==
    /\ PersistedDatabase
    /\ items = tickets
    /\ cinemaItems = cinemas
    /\ notifs \in {EarlierReminders(T) : T \in TicketTables(MaxRows)}
    /\ isInitialized = FALSE
    /\ now \in Clock
    /\ sqlite \in [foreignKeys : BOOLEAN, isoDates : BOOLEAN]
    /\ app = SetUp
    /\ result = Outcome("", "", "", "")
    /\ call = Idle
    /\ sync = Idle
    /\ sweep = Idle
    /\ backup = NoFile
    /\ steps = 0

NextSync ==
    \/ \E id \in TicketIds : MarkUsedUpdate(id)
    \/ MarkUsedCancel
    \/ \E id \in TicketIds : RemoveCancel(id)
    \/ RemoveDelete
    \/ CallRefresh
    \/ SyncStart
    \/ SyncRead
    \/ \E granted \in BOOLEAN : SyncSchedule(granted)
    \/ SyncCancelOrphan
    \/ SweepStart
    \/ SweepRead
    \/ SweepCancel

SpecSync == InitSync /\ [][NextSync]_vars

-----------------------------------------------------------------------------
(* The NotificationManager called directly, while time passes               *)

\* expiration instants: the tickets' own, and one exactly three days ahead
ExpiryInstants == {k.expiresAt : k \in TicketKeys} \cup {ThreeDays}

\* scheduleTicketExpiration({ticketId, expiresAt}); null when initialize fails
ScheduleCall(ticketId, expiresAt, granted) ==
    /\ Ready
    /\ steps' = steps + 1
    /\ CanSchedule(notifs, ticketId, Date(expiresAt), now)
    /\ notifs' = ScheduleTicketExpiration(notifs, ticketId, Date(expiresAt), now, granted)
    /\ isInitialized' = InitializeResult(granted)
    /\ result' = Outcome("schedule", IF InitializeResult(granted) THEN "ok" ELSE "null",
                         ticketId, [expiresAt |-> expiresAt, at |-> now])
    /\ UNCHANGED <<tickets, cinemas, items, cinemaItems, now, sqlite, app, call, sync, sweep,
                   backup>>

\* cancelTicketNotifications(ticketId)
CancelCall(ticketId) ==
    /\ Ready
    /\ steps' = steps + 1
    /\ notifs' = CancelTicketNotifications(notifs, ticketId)
    /\ result' = Outcome("cancel", "ok", ticketId, "")
    /\ UNCHANGED <<tickets, cinemas, items, cinemaItems, isInitialized, now, sqlite, app, call,
                   sync, sweep, backup>>

\* updateTicketNotifications: cancel, then schedule again
UpdateCall(ticketId, expiresAt, granted) ==
    /\ Ready
    /\ steps' = steps + 1
    /\ notifs' = ScheduleTicketExpiration(CancelTicketNotifications(notifs, ticketId),
                                          ticketId, Date(expiresAt), now, granted)
    /\ isInitialized' = InitializeResult(granted)
    /\ result' = Outcome("update", IF InitializeResult(granted) THEN "ok" ELSE "null",
                         ticketId, [expiresAt |-> expiresAt, at |-> now])
    /\ UNCHANGED <<tickets, cinemas, items, cinemaItems, now, sqlite, app, call, sync, sweep,
                   backup>>

\* cancelAllNotifications
CancelAllCall ==
    /\ Ready
    /\ steps' = steps + 1
    /\ notifs' = EmptyBag
    /\ result' = Outcome("cancelAll", "ok", "", "")
    /\ UNCHANGED <<tickets, cinemas, items, cinemaItems, isInitialized, now, sqlite, app, call,
                   sync, sweep, backup>>

\* half a day passes
Tick ==
    /\ now + (OneDay \div 2) \in Clock
    /\ now' = now + (OneDay \div 2)
    /\ UNCHANGED <<tickets, cinemas, items, cinemaItems, notifs, isInitialized, sqlite, app,
                   result, call, sync, sweep, backup, steps>>

NextSched ==
    \/ \E id \in TicketIds, e \in ExpiryInstants, granted \in BOOLEAN : ScheduleCall(id, e, granted)
    \/ \E id \in TicketIds : CancelCall(id)
    \/ \E id \in TicketIds, e \in ExpiryInstants, granted \in BOOLEAN : UpdateCall(id, e, granted)
    \/ CancelAllCall
    \/ Tick

\* a fresh install: the tables are empty and nothing is scheduled
InitSched ==
    /\ tickets = {}
    /\ cinemas = {}
    /\ Started
    /\ now = 0

SpecSched == InitSched /\ [][NextSched]_vars

-----------------------------------------------------------------------------
(* A backup taken on one installation and imported on a fresh one           *)

\* the backup screen's export, with the options switched as the user likes
RoundTripExport(opts) ==
    /\ result.op = ""
    /\ ExportData(opts)

\* the file is carried to a new installation: the migration has created the
\* two tables, they are empty, and the app has just started
FreshInstall ==
    /\ result.op = "export"
    /\ tickets' = {}
    /\ cinemas' = {}
    /\ items' = {}
    /\ cinemaItems' = {}
    /\ notifs' = EmptyBag
    /\ isInitialized' = FALSE
    /\ steps' = 0
    /\ result' = Outcome("install", "ok", "", "")
    /\ UNCHANGED <<now, sqlite, app, call, sync, sweep, backup>>

\* "Importer (ajouter)" with the exported file, confirmed
RoundTripImport ==
    /\ result.op = "install"
    /\ ImportData(backup, FALSE, "confirm")

NextRoundTrip ==
    \/ \E opts \in ExportOptions : RoundTripExport(opts)
    \/ FreshInstall
    \/ RoundTripImport

SpecRoundTrip == Init /\ [][NextRoundTrip]_vars

-----------------------------------------------------------------------------
(* Imports of a backup file that lies on the device                         *)

\* a backup file reaches the device (shared, downloaded, or exported earlier)
ReceiveFile(f) ==
    /\ backup = NoFile
    /\ Settled
    /\ backup' = f
    /\ UNCHANGED <<tickets, cinemas, items, cinemaItems, notifs, isInitialized, now,
                   sqlite, app, result, call, sync, sweep, steps>>

\* the user picks that file on the backup screen, in either mode
ImportFile(replaceExisting, answer) ==
    /\ backup # NoFile
    /\ ImportData(backup, replaceExisting, answer)

NextImport ==
    \/ \E f \in BackupFiles : ReceiveFile(f)
    \/ \E replaceExisting \in BOOLEAN, answer \in Answers : ImportFile(replaceExisting, answer)

SpecImport == Init /\ [][NextImport]_vars

-----------------------------------------------------------------------------
(* TicketAnalyzer: the confidence score and the validation of extracted data *)

\* a JavaScript number of the analyzer: its decimal value in thousandths, and
\* ulp = 1 when the double lies above the double written with that decimal.
\* The sums of calculateConfidence are followed to the last place only at
\* 0.3, the one literal the code compares a confidence with: 0.2 + 0.1 is
\* 0.30000000000000004, while 0.3 alone is the literal itself.
Double(milli, ulp) == [milli |-> milli, ulp |-> ulp]

\* a < b on two such numbers
Less(a, b) == a.milli < b.milli \/ (a.milli = b.milli /\ a.ulp < b.ulp)

\* the truthiness test if (data.field) on an optional string: a string is the
\* sequence of its pieces, and undefined and '' are both <<>>
Found(v) == v # <<>>

\* the sum reaches 0.3 by 0.2 + 0.1: the cinema name and one of price and QR
RoundsAboveLiteral(data) ==
    /\ ~Found(data.code) /\ ~Found(data.expirationDate) /\ ~Found(data.showTime)
    /\ Found(data.cinemaName)
    /\ Found(data.price) # Found(data.qrPayload)
    /\ data.errors = <<>>

\* calculateConfidence without the final Math.min
UncappedConfidence(data) ==
    LET weights == [code |-> 300, expirationDate |-> 250, cinemaName |-> 200,
                    showTime |-> 150, price |-> 100]
        fields == (IF Found(data.code) THEN weights.code ELSE 0)
                    + (IF Found(data.expirationDate) THEN weights.expirationDate ELSE 0)
                    + (IF Found(data.cinemaName) THEN weights.cinemaName ELSE 0)
                    + (IF Found(data.showTime) THEN weights.showTime ELSE 0)
                    + (IF Found(data.price) THEN weights.price ELSE 0)
        bonus == IF Found(data.qrPayload) THEN fields + 100 ELSE fields
        score == IF Len(data.errors) > 0 THEN (bonus * 8) \div 10 ELSE bonus
    IN  Double(score, IF RoundsAboveLiteral(data) THEN 1 ELSE 0)

\* TicketAnalyzer.calculateConfidence
CalculateConfidence(data) ==
    LET score == UncappedConfidence(data)
    IN  IF Less(Double(1000, 0), score) THEN Double(1000, 0) ELSE score

IsDigit(ch) == ch \in {"0", "1", "2", "3", "4", "5", "6", "7", "8", "9"}

\* String.replace(',', '.'): the first comma only
RECURSIVE ReplaceComma(_)
ReplaceComma(s) ==
    IF s = <<>> THEN <<>>
    ELSE IF Head(s) = "," THEN <<".">> \o Tail(s)
    ELSE <<Head(s)>> \o ReplaceComma(Tail(s))

\* the digits a string starts with
RECURSIVE LeadingDigits(_)
LeadingDigits(s) ==
    IF s = <<>> \/ ~IsDigit(Head(s)) THEN 0 ELSE 1 + LeadingDigits(Tail(s))

\* /^\d+\.?\d{0,2}$/.test(cleanPrice)
PriceMatches(cleanPrice) ==
    LET n == LeadingDigits(cleanPrice)
        rest == SubSeq(cleanPrice, n + 1, Len(cleanPrice))
        decimals == IF rest # <<>> /\ Head(rest) = "." THEN Tail(rest) ELSE rest
    IN  /\ n >= 1
        /\ Len(decimals) <= 2
        /\ \A i \in 1..Len(decimals) : IsDigit(decimals[i])

\* a date is <<separator, digits of the last group>>, day and month being
\* digits: the three dateFormats, /d/m/yyyy/, /d/m/yy/ and /d-m-yyyy/
DateMatches(date) ==
    \/ date[1] = "/" /\ date[2] >= 4
    \/ date[1] = "/" /\ date[2] >= 2
    \/ date[1] = "-" /\ date[2] >= 4

\* TicketAnalyzer.validateExtractedData: what it reports
ValidateExtractedData(data) ==
    LET codeErrors == IF Found(data.code) /\ Len(data.code) < 3
                      THEN <<"Code de billet trop court">> ELSE <<>>
        dateErrors == IF Found(data.expirationDate) /\ ~DateMatches(data.expirationDate)
                      THEN <<"Format de date non reconnu">> ELSE <<>>
        priceErrors == IF Found(data.price) /\ ~PriceMatches(ReplaceComma(data.price))
                       THEN <<"Format de prix invalide">> ELSE <<>>
        errors == codeErrors \o dateErrors \o priceErrors
    IN  [isValid |-> errors = <<>> /\ Less(Double(300, 0), data.confidence),
         validationErrors |-> errors]

\* what the extraction patterns can put in each field
ExtractedCodes == {<<>>, <<"5", "C", "E", "1", "5", "A">>}
ExtractedDates ==
    {<<>>, <<"/", 4>>, <<"-", 2>>, <<".", 4>>}
ExtractedPrices == {<<>>, <<"1", "2", ",", "5", "0">>}
Extracted ==
    [code : ExtractedCodes, expirationDate : ExtractedDates,
     cinemaName : {<<>>, <<"UGC">>}, showTime : {<<>>, <<"20:30">>},
     price : ExtractedPrices, qrPayload : {<<>>, <<"UGC_5CE15A_20241231">>}]

\* any ExtractedTicketData a caller can hand to the analyzer's functions
TicketData ==
    [code : ExtractedCodes \cup {<<"A", "B">>}, expirationDate : ExtractedDates,
     cinemaName : {<<>>, <<"UGC">>}, showTime : {<<>>, <<"20:30">>},
     price : ExtractedPrices \cup {<<"1", "2", ",", "5", "0", "E">>},
     qrPayload : {<<>>, <<"UGC_5CE15A_20241231">>},
     errors : {<<>>, <<"Erreur inconnue">>}]

\* the data calculateConfidence is called on: it reads which fields are
\* found and whether there are errors, so one value per field is enough
FoundData ==
    {d \in TicketData : /\ d.code \in ExtractedCodes
                        /\ d.price \in ExtractedPrices
                        /\ d.expirationDate \in {<<>>, <<"/", 4>>}}

\* the files the modal can be given: fault names the check that fails
Files == [fault : {"missing", "tooBig", "format"}] \cup [fault : {"none"}, text : Extracted]

\* TicketAnalyzer.analyzeTicket
AnalyzeTicket(file) ==
    LET blank == [code |-> <<>>, expirationDate |-> <<>>,
                  cinemaName |-> <<>>, showTime |-> <<>>,
                  price |-> <<>>, qrPayload |-> <<>>,
                  errors |-> <<>>, confidence |-> Double(0, 0)]
        read == [f \in DOMAIN blank |->
                    IF f \in DOMAIN file.text THEN file.text[f] ELSE blank[f]]
    IN  CASE file.fault = "missing" -> [blank EXCEPT !.errors = <<"Fichier non trouvé">>]
          [] file.fault = "tooBig" ->
                [blank EXCEPT !.errors = <<"Fichier trop volumineux (max 10MB)">>]
          [] file.fault = "format" ->
                [blank EXCEPT !.errors = <<"Format non supporté. Utilisez JPG, PNG ou PDF">>]
          [] OTHER -> [read EXCEPT !.confidence = CalculateConfidence(read)]

\* a call of calculateConfidence
CalculateConfidenceCall(data) ==
    /\ Settled
    /\ result' = Outcome("calculateConfidence", CalculateConfidence(data), data, "")
    /\ UNCHANGED <<tickets, cinemas, items, cinemaItems, notifs, isInitialized, now,
                   sqlite, app, call, sync, sweep, backup, steps>>

\* a call of validateExtractedData on data with its computed confidence
ValidateExtractedDataCall(data) ==
    LET scored == [f \in DOMAIN data \cup {"confidence"} |->
                      IF f = "confidence" THEN CalculateConfidence(data) ELSE data[f]]
    IN  /\ Settled
        /\ result' = Outcome("validateExtractedData", ValidateExtractedData(scored),
                             scored, "")
        /\ UNCHANGED <<tickets, cinemas, items, cinemaItems, notifs, isInitialized, now,
                       sqlite, app, call, sync, sweep, backup, steps>>

\* handleAnalyzeTicket of the analyzer modal: out tells whether the
\* 'Analyse incomplète' alert was shown, arg is analysisResult
HandleAnalyzeTicket(file) ==
    LET analysisResult == AnalyzeTicket(file)
    IN  /\ Settled
        /\ result' = Outcome("handleAnalyzeTicket",
                             Less(analysisResult.confidence, Double(300, 0)),
                             analysisResult, "")
        /\ UNCHANGED <<tickets, cinemas, items, cinemaItems, notifs, isInitialized, now,
                       sqlite, app, call, sync, sweep, backup, steps>>

\* handleUseExtractedData of the analyzer modal, on the analysisResult shown:
\* info keeps whether the alert had been shown for it
HandleUseExtractedData ==
    /\ Settled
    /\ result.op = "handleAnalyzeTicket"
    /\ result' = Outcome("handleUseExtractedData", ValidateExtractedData(result.arg),
                         result.arg, result.out)
    /\ UNCHANGED <<tickets, cinemas, items, cinemaItems, notifs, isInitialized, now,
                   sqlite, app, call, sync, sweep, backup, steps>>

NextAnalyzer ==
    \/ \E data \in FoundData : CalculateConfidenceCall(data)
    \/ \E data \in TicketData : ValidateExtractedDataCall(data)
    \/ \E file \in Files : HandleAnalyzeTicket(file)
    \/ HandleUseExtractedData

SpecAnalyzer == InitSched /\ [][NextAnalyzer]_vars

-----------------------------------------------------------------------------
(* The app from its launch: the database setup, then the session            *)

\* the next awaited statement of App's startup effect resolves or rejects
RunSetupStatement(outcome) ==
    /\ app.next <= Len(SetupStatements)
    /\ app' = SetupStep(app, outcome)
    /\ result' = Outcome("setup", IF outcome = "ok" THEN "ok" ELSE "threw",
                         SetupStatements[app.next], outcome)
    /\ UNCHANGED <<tickets, cinemas, items, cinemaItems, notifs, isInitialized, now,
                   sqlite, call, sync, sweep, backup, steps>>

InitStartup ==
    /\ PersistedDatabase
    /\ Constructed
    /\ app = Launched
    /\ now = 0

NextStartup ==
    \/ \E outcome \in {"ok"} \cup SetupErrors : RunSetupStatement(outcome)
    \/ Next

SpecStartup == InitStartup /\ [][NextStartup]_vars

-----------------------------------------------------------------------------
(* Exports taken in the course of a session, with any options               *)

NextExport ==
    \/ Tick
    \/ \E id \in TicketIds : MarkUsed(id)
    \/ \E opts \in ExportOptions : ExportData(opts)

SpecExport == Init /\ [][NextExport]_vars

-----------------------------------------------------------------------------
(* CinemasScreen: the add-cinema form and the slug it generates             *)
(* A name is the sequence of its characters                                 *)

LowerLetters ==
    <<"a", "b", "c", "d", "e", "f", "g", "h", "i", "j", "k", "l", "m",
      "n", "o", "p", "q", "r", "s", "t", "u", "v", "w", "x", "y", "z">>
UpperLetters ==
    <<"A", "B", "C", "D", "E", "F", "G", "H", "I", "J", "K", "L", "M",
      "N", "O", "P", "Q", "R", "S", "T", "U", "V", "W", "X", "Y", "Z">>
Range(s) == {s[i] : i \in DOMAIN s}

\* String.toLowerCase, on the letters and the accented letters used
ToLowerCase(ch) ==
    IF ch \in Range(UpperLetters)
    THEN LowerLetters[CHOOSE i \in DOMAIN UpperLetters : UpperLetters[i] = ch]
    ELSE IF ch = "É" THEN "é" ELSE ch

\* normalize('NFD') followed by the removal of the combining marks
WithoutAccent(ch) == IF ch \in {"é", "è", "ê"} THEN "e" ELSE ch

IsSpace(ch) == ch = " "

\* [a-z0-9\s]
IsSlugChar(ch) == ch \in Range(LowerLetters) \/ IsDigit(ch) \/ IsSpace(ch)

\* replace(/\s+/g, '-')
RECURSIVE DashSpaces(_)
DashSpaces(s) ==
    IF s = <<>> THEN <<>>
    ELSE IF ~IsSpace(Head(s)) THEN <<Head(s)>> \o DashSpaces(Tail(s))
    ELSE IF Tail(s) # <<>> /\ IsSpace(Head(Tail(s))) THEN DashSpaces(Tail(s))
    ELSE <<"-">> \o DashSpaces(Tail(s))

\* String.trim
RECURSIVE Trim(_)
Trim(s) ==
    IF s = <<>> THEN <<>>
    ELSE IF IsSpace(Head(s)) THEN Trim(Tail(s))
    ELSE IF IsSpace(s[Len(s)]) THEN Trim(SubSeq(s, 1, Len(s) - 1))
    ELSE s

\* the string made of the characters
RECURSIVE Join(_)
Join(s) == IF s = <<>> THEN "" ELSE Head(s) \o Join(Tail(s))

\* generateSlug
GenerateSlug(name) ==
    LET lower == [i \in DOMAIN name |-> ToLowerCase(name[i])]
        plain == [i \in DOMAIN lower |-> WithoutAccent(lower[i])]
        kept == SelectSeq(plain, IsSlugChar)
    IN  Join(Trim(DashSpaces(kept)))

\* the names typed into the form; the optional fields are left empty
CinemaNames ==
    { <<"U", "G", "C", " ", "C", "i", "n", "é", " ", "C", "i", "t", "é">>,
      <<"u", "g", "c", " ", " ", "c", "i", "n", "e", " ", "c", "i", "t", "e", "!">>,
      <<"P", "a", "t", "h", "é", " ">>,
      <<"P", "A", "T", "H", "E">>,
      <<"M", "K", "2">>,
      <<"P", " ">> }

\* the ids createId can return: random, so never one that is stored
CinemaIds == {"c2", "c3"}

\* validateForm, for a form whose optional fields are empty
ValidCinemaForm(name) == Len(Trim(name)) >= 2

\* handleSave: validateForm, add with the generated slug, goBack or the alert
HandleSaveCinema(name, id) ==
    LET c == [id |-> id, slug |-> GenerateSlug(Trim(name)), createdAt |-> Date(now)]
    IN  /\ Ready
        /\ id \notin Ids(cinemas)
        /\ steps' = steps + 1
        /\ IF ~ValidCinemaForm(name)
           THEN /\ result' = Outcome("saveCinema", "invalid", name, "")
                /\ UNCHANGED <<cinemas, cinemaItems>>
           ELSE IF InsertCinemaOutcome(cinemas, c) = "ok"
           THEN /\ cinemas' = cinemas \cup {StoredCinema(c)}
                /\ cinemaItems' = cinemas'
                /\ result' = Outcome("saveCinema", "saved", name, c.slug)
           ELSE /\ result' = Outcome("saveCinema", "alert", name, c.slug)
                /\ UNCHANGED <<cinemas, cinemaItems>>
        /\ UNCHANGED <<tickets, items, notifs, isInitialized, now, sqlite, app, call, sync,
                       sweep, backup>>

NextCinemas ==
    \/ \E name \in CinemaNames, id \in CinemaIds : HandleSaveCinema(name, id)
    \/ \E c \in NewCinemas : AddCinema(c)
    \/ \E id \in {"c1", "c2"} : RemoveCinema(id)
    \/ InitDefaults
    \/ ResetCinemasToDefault
    \/ \E in \in ImportInputs : ImportData(in[1], in[2], in[3])

SpecCinemas == Init /\ [][NextCinemas]_vars

-----------------------------------------------------------------------------
(* AddTicketScreen: the add-ticket form                                     *)
(* A text field is the sequence of its characters (or longer pieces); the   *)
(* date field is <<>> when empty and <<format, day>> otherwise, day being   *)
(* the calendar day counted from the day the clock starts                   *)

\* /^\d{2}\/\d{2}\/\d{4}$/.test(expiresAt)
IsFrenchDate(text) == text[1] = "JJ/MM/AAAA"

\* parseFrenchDate: new Date(year, month - 1, day), the day's midnight
ParseFrenchDate(text) == Date(text[2] * OneDay)

\* validateForm without the test date < new Date()
ValidateFormAnyDate(f, t) ==
    /\ Trim(f.code) # <<>>
    /\ Len(Trim(f.code)) >= 3
    /\ Trim(f.qrPayload) # <<>>
    /\ Trim(f.cinemaId) # <<>>
    /\ f.expiresAt # <<>>
    /\ IsFrenchDate(f.expiresAt)
    /\ f.sourceFileUri # ""

\* validateForm: TRUE when it has found no error
ValidateForm(f, t) ==
    /\ Trim(f.code) # <<>>
    /\ Len(Trim(f.code)) >= 3
    /\ Trim(f.qrPayload) # <<>>
    /\ Trim(f.cinemaId) # <<>>
    /\ f.expiresAt # <<>>
    /\ IsFrenchDate(f.expiresAt)
    /\ ~(InstantOf(ParseFrenchDate(f.expiresAt)) < t)
    /\ f.sourceFileUri # ""

\* the argument handleSave gives to add
FormTicket(f, id) ==
    [id |-> id, code |-> Join(Trim(f.code)), qrPayload |-> Join(Trim(f.qrPayload)),
     cinemaId |-> Join(Trim(f.cinemaId)), sourceFileUri |-> f.sourceFileUri,
     expiresAt |-> ParseFrenchDate(f.expiresAt), status |-> Undefined, usedAt |-> NoDate]

\* two forms filled in well, with the keys of k1 and k2 ...
GoodForms ==
    { [code |-> <<" ", "5", "C", "E", "1", "5", "A">>, qrPayload |-> <<"QR-A", " ">>,
       cinemaId |-> <<"c1">>, expiresAt |-> <<"JJ/MM/AAAA", 3>>,
       sourceFileUri |-> "file://ticket.pdf"],
      [code |-> <<"7", "B", "F", "2", "0", "C">>, qrPayload |-> <<"QR-B">>,
       cinemaId |-> <<"c2">>, expiresAt |-> <<"JJ/MM/AAAA", 1>>,
       sourceFileUri |-> "file://ticket.pdf"] }

\* ... and the same forms with one field, or two, left empty or filled in badly
BadForms ==
    UNION { { [f EXCEPT !.code = <<>>],
              [f EXCEPT !.code = <<"A", "B", " ">>],
              [f EXCEPT !.qrPayload = <<" ">>],
              [f EXCEPT !.cinemaId = <<>>],
              [f EXCEPT !.expiresAt = <<>>],
              [f EXCEPT !.expiresAt = <<"AAAA-MM-JJ", 3>>],
              [f EXCEPT !.expiresAt = <<"JJ/MM/AAAA", 0>>],
              [f EXCEPT !.sourceFileUri = ""],
              [f EXCEPT !.code = <<"A", "B", " ">>, !.sourceFileUri = ""] } : f \in GoodForms }

Forms == GoodForms \cup BadForms

\* the ids createId can return: random, so never one that is stored
FormTicketIds == {"t3"}

\* handleSave: validateForm, add, goBack or the alert
HandleSave(f, id, granted) ==
    /\ Ready
    /\ id \notin Ids(tickets)
    /\ steps' = steps + 1
    /\ IF ~ValidateForm(f, now)
       THEN /\ result' = Outcome("save", "invalid", f, id)
            /\ UNCHANGED <<tickets, notifs, isInitialized, items>>
       ELSE LET row == NewRow(FormTicket(f, id))
            IN  IF InsertTicketOutcome(tickets, cinemas, row) = "ok"
                THEN /\ CanSchedule(notifs, row.id, row.expiresAt, now)
                     /\ tickets' = tickets \cup {StoredTicket(row)}
                     /\ notifs' = ScheduleTicketExpiration(notifs, row.id, row.expiresAt,
                                                         now, granted)
                     /\ isInitialized' = InitializeResult(granted)
                     /\ items' = tickets'
                     /\ result' = Outcome("save", "saved", f, id)
                ELSE /\ result' = Outcome("save", "alert", f, id)
                     /\ UNCHANGED <<tickets, notifs, isInitialized, items>>
    /\ UNCHANGED <<cinemas, cinemaItems, now, sqlite, app, call, sync, sweep, backup>>

NextForm ==
    \/ Tick
    \/ \E f \in Forms, id \in FormTicketIds, granted \in BOOLEAN : HandleSave(f, id, granted)

SpecForm == Init /\ [][NextForm]_vars

-----------------------------------------------------------------------------
(* Store calls that overlap.  An async function runs until its next await;  *)
(* what follows a database await is a job on the promise job queue, run in  *)
(* the order the jobs were queued (the database is opened with              *)
(* openDatabaseSync and the driver runs each statement in one job); what    *)
(* follows an await of the notification manager waits for the native side   *)
(* and is queued whenever that answers.  call holds the jobs of the calls   *)
(* in flight: queue for the first kind, native for the second.              *)

\* a call in flight: n numbers the call, at is the statement it comes to next
Job(n, op, arg, at) ==
    [n |-> n, op |-> op, arg |-> arg, at |-> at, snap |-> {}, overlapped |-> FALSE]

InFlight(queue, native) ==
    IF queue = <<>> /\ native = {} THEN Idle
    ELSE [pc |-> "running", queue |-> queue, native |-> native]

JobQueue == IF call = Idle THEN <<>> ELSE call.queue
NativeJobs == IF call = Idle THEN {} ELSE call.native

\* the queued jobs that may run next, in any order
AnyQueued(queue) == DOMAIN queue

\* the queued jobs that may run next: the one queued first
Runnable(queue) == IF queue = <<>> THEN {} ELSE {1}

Without(queue, i) == SubSeq(queue, 1, i - 1) \o SubSeq(queue, i + 1, Len(queue))

\* the statement each store method awaits first
FirstStatement(op) ==
    CASE op = "refresh" -> "select"
      [] op = "add" -> "insert"
      [] op = "markUsed" -> "update"
      [] op = "remove" -> "cancel"
      [] op = "refreshCinemas" -> "selectCinemas"
      [] op = "addCinema" -> "insertCinema"
      [] op = "removeCinema" -> "deleteCinema"

\* the calls made on the two stores
StoreCalls ==
    {<<"refresh", "">>, <<"refreshCinemas", "">>}
        \cup {<<"add", t>> : t \in {n \in NewTickets(0) : /\ n.status = Undefined
                                                         /\ n.usedAt = NoDate
                                                         /\ n.qrPayload = "QR-B"}}
        \cup {<<op, "t1">> : op \in {"markUsed", "remove"}}
        \cup {<<"addCinema", c>> : c \in {n \in NewCinemas : n.slug = "pathe"}}
        \cup {<<"removeCinema", "c2">>}

\* a store method is called: it runs to its first await
StartCall(op, arg) ==
    LET job == [Job(steps + 1, op, arg, FirstStatement(op)) EXCEPT !.overlapped = call # Idle]
        seen == [i \in DOMAIN JobQueue |-> [JobQueue[i] EXCEPT !.overlapped = TRUE]]
        waiting == {[j EXCEPT !.overlapped = TRUE] : j \in NativeJobs}
    IN  /\ CanStart
        /\ sync = Idle /\ sweep = Idle
        /\ steps' = steps + 1
        /\ call' = IF job.at = "cancel"
                   THEN InFlight(seen, waiting \cup {job})
                   ELSE InFlight(Append(seen, job), waiting)
        /\ UNCHANGED <<tickets, cinemas, items, cinemaItems, notifs, isInitialized, now,
                       sqlite, app, result, sync, sweep, backup>>

\* the call of the job returns or throws
Returned(job, out) == Outcome(job.op, out, job.n, job.overlapped)

\* a queued job runs: the statement it had awaited, and the code up to the
\* next await
RunJob(i) ==
    LET job == JobQueue[i]
        rest == Without(JobQueue, i)
        goOn(at) == InFlight(Append(rest, [job EXCEPT !.at = at]), NativeJobs)
        goNative(at) == InFlight(rest, NativeJobs \cup {[job EXCEPT !.at = at]})
        over == InFlight(rest, NativeJobs)
        row == NewRow(job.arg)
    IN  /\ call # Idle
        /\ i \in Runnable(JobQueue)
        /\ CASE job.at = "select" ->
                  /\ call' = InFlight(Append(rest, [job EXCEPT !.at = "set", !.snap = tickets]),
                                      NativeJobs)
                  /\ UNCHANGED <<tickets, cinemas, items, cinemaItems, result>>
             [] job.at = "set" ->
                  /\ items' = job.snap
                  /\ call' = over
                  /\ result' = Returned(job, "ok")
                  /\ UNCHANGED <<tickets, cinemas, cinemaItems>>
             [] job.at = "insert" ->
                  IF InsertTicketOutcome(tickets, cinemas, row) = "ok"
                  THEN /\ tickets' = tickets \cup {StoredTicket(row)}
                       /\ call' = goOn("selectCinema")
                       /\ UNCHANGED <<cinemas, items, cinemaItems, result>>
                  ELSE /\ call' = over
                       /\ result' = Returned(job, "threw")
                       /\ UNCHANGED <<tickets, cinemas, items, cinemaItems>>
             [] job.at = "selectCinema" ->
                  /\ call' = goNative("schedule")
                  /\ UNCHANGED <<tickets, cinemas, items, cinemaItems, result>>
             [] job.at = "update" ->
                  /\ tickets' = {MarkRowUsed(r, job.arg, now) : r \in tickets}
                  /\ call' = goNative("cancel")
                  /\ UNCHANGED <<cinemas, items, cinemaItems, result>>
             [] job.at = "delete" ->
                  /\ tickets' = {r \in tickets : r.id # job.arg}
                  /\ call' = goOn("select")
                  /\ UNCHANGED <<cinemas, items, cinemaItems, result>>
             [] job.at = "selectCinemas" ->
                  /\ call' = InFlight(Append(rest, [job EXCEPT !.at = "setCinemas",
                                                               !.snap = cinemas]), NativeJobs)
                  /\ UNCHANGED <<tickets, cinemas, items, cinemaItems, result>>
             [] job.at = "setCinemas" ->
                  /\ cinemaItems' = job.snap
                  /\ call' = over
                  /\ result' = Returned(job, "ok")
                  /\ UNCHANGED <<tickets, cinemas, items>>
             [] job.at = "insertCinema" ->
                  IF InsertCinemaOutcome(cinemas, job.arg) = "ok"
                  THEN /\ cinemas' = cinemas \cup {StoredCinema(job.arg)}
                       /\ call' = goOn("selectCinemas")
                       /\ UNCHANGED <<tickets, items, cinemaItems, result>>
                  ELSE /\ call' = over
                       /\ result' = Returned(job, "threw")
                       /\ UNCHANGED <<tickets, cinemas, items, cinemaItems>>
             [] job.at = "deleteCinema" ->
                  IF DeleteCinemasOk(tickets, {c \in cinemas : c.id = job.arg})
                  THEN /\ cinemas' = {c \in cinemas : c.id # job.arg}
                       /\ call' = goOn("selectCinemas")
                       /\ UNCHANGED <<tickets, items, cinemaItems, result>>
                  ELSE /\ call' = over
                       /\ result' = Returned(job, "threw")
                       /\ UNCHANGED <<tickets, cinemas, items, cinemaItems>>
        /\ UNCHANGED <<notifs, isInitialized, now, sqlite, app, sync, sweep, backup, steps>>

\* the notification manager answers a call that waits for it, and the call
\* goes on to its next database statement
NativeAnswers(job, granted) ==
    LET waiting == NativeJobs \ {job}
        goOn(at) == InFlight(Append(JobQueue, [job EXCEPT !.at = at]), waiting)
    IN  /\ job \in NativeJobs
        /\ IF job.at = "schedule"
           THEN LET row == NewRow(job.arg)
                IN  /\ CanSchedule(notifs, row.id, row.expiresAt, now)
                    /\ notifs' = ScheduleTicketExpiration(notifs, row.id, row.expiresAt,
                                                        now, granted)
                    /\ isInitialized' = InitializeResult(granted)
                    /\ call' = goOn("select")
           ELSE /\ notifs' = CancelTicketNotifications(notifs, job.arg)
                /\ call' = goOn(IF job.op = "remove" THEN "delete" ELSE "select")
                /\ UNCHANGED isInitialized
        /\ UNCHANGED <<tickets, cinemas, items, cinemaItems, now, sqlite, app, result,
                       sync, sweep, backup, steps>>

\* the home screen is shown: both lists have been loaded
InitOverlap ==
    /\ PersistedDatabase
    /\ items = tickets
    /\ cinemaItems = cinemas
    /\ notifs = EmptyBag
    /\ isInitialized = FALSE
    /\ now = 0
    /\ sqlite \in [foreignKeys : BOOLEAN, isoDates : BOOLEAN]
    /\ app = SetUp
    /\ result = Outcome("", "", "", "")
    /\ call = Idle
    /\ sync = Idle
    /\ sweep = Idle
    /\ backup = NoFile
    /\ steps = 0

NextOverlap ==
    \/ \E c \in StoreCalls : StartCall(c[1], c[2])
    \/ \E i \in DOMAIN JobQueue : RunJob(i)
    \/ \E job \in NativeJobs, granted \in BOOLEAN : NativeAnswers(job, granted)

SpecOverlap == InitOverlap /\ [][NextOverlap]_vars

-----------------------------------------------------------------------------
(* useNotificationScheduler: a whole run of syncNotifications, with nothing *)
(* else going on (src/App_backup.tsx)                                       *)

\* new Set(scheduledNotifications.map(notif => notif.content.data?.ticketId))
NotificationTicketIds(bag) == {n.ticketId : n \in DOMAIN bag}

\* the PENDING tickets the loop finds without a scheduled notification
SyncTodo(snap, bag) ==
    {t \in snap : t.status = "PENDING" /\ t.id \notin NotificationTicketIds(bag)}

\* a run that cancels nothing
SyncNoOrphans(snap, bag) == {}

\* the ids left in the set after the loop: reminders of tickets that are not
\* PENDING tickets of the list
SyncOrphans(snap, bag) ==
    NotificationTicketIds(bag) \ {t.id : t \in {x \in snap : x.status = "PENDING"}}

\* the orders in which the loop can meet the tickets of a set
Orders(S) ==
    {s \in [1..Cardinality(S) -> S] : \A i, j \in 1..Cardinality(S) : i # j => s[i] # s[j]}

\* the scheduleTicketExpiration calls of the loop, one ticket after the other:
\* the bag, isInitialized and the ids whose call returned null
RECURSIVE ScheduleEach(_, _, _, _, _, _)
ScheduleEach(bag, initialized, refused, todo, answers, t) ==
    IF todo = <<>> THEN [bag |-> bag, initialized |-> initialized, refused |-> refused]
    ELSE LET ticket == Head(todo)
             ok == initialized \/ answers[ticket.id]
         IN  ScheduleEach(IF ok THEN bag (+) SetToBag(Reminders(ticket.id, InstantOf(ticket.expiresAt), t))
                                ELSE bag,
                          ok,
                          IF ok THEN refused ELSE refused \cup {ticket.id},
                          Tail(todo), answers, t)

\* cancelTicketNotifications for every orphan
CancelEach(bag, ids) == [n \in {m \in DOMAIN bag : m.ticketId \notin ids} |-> bag[n]]

\* syncNotifications from its first to its last statement
SyncNotifications(order, answers) ==
    /\ Ready
    /\ cinemaItems # {}
    /\ steps' = steps + 1
    /\ LET scheduled == ScheduleEach(notifs, isInitialized, {}, order, answers, now)
       IN  /\ notifs' = CancelEach(scheduled.bag, SyncOrphans(items, notifs))
           /\ isInitialized' = scheduled.initialized
           /\ result' = Outcome("sync", "ok", {t.id : t \in SyncTodo(items, notifs)},
                                [refused |-> scheduled.refused,
                                 cancelled |-> SyncOrphans(items, notifs), at |-> now])
    /\ UNCHANGED <<tickets, cinemas, items, cinemaItems, now, sqlite, app, call, sync, sweep,
                   backup>>

NextSyncAlone ==
    \/ \E answers \in [TicketIds -> BOOLEAN] :
          \E order \in Orders(SyncTodo(items, notifs)) : SyncNotifications(order, answers)
    \/ \E id \in TicketIds : MarkUsed(id)
    \/ Tick

SpecSyncAlone == InitSync /\ [][NextSyncAlone]_vars

-----------------------------------------------------------------------------
(* The store methods when the notification service fails                    *)

\* what can go wrong while add schedules: the cinema lookup throws, or the
\* first, second or third scheduleNotificationAsync call throws
ScheduleFaults == {"none", "select", "first", "second", "third"}

\* what can go wrong while cancelling: getAllScheduledNotificationsAsync
\* throws, or a cancelScheduledNotificationAsync call throws after one
\* notification of the ticket was cancelled
CancelFaults == {"none", "list", "midway"}

FaultAt(fault) ==
    CASE fault = "first" -> 1 [] fault = "second" -> 2 [] fault = "third" -> 3 [] OTHER -> 4

\* catch (error) { console.error(...); return null } of the manager's methods
ManagerCatches(raised) == FALSE

\* an exception that passes through
Rethrown(raised) == raised

\* try { ... } catch (error) { console.warn(...) } of add, markUsed and
\* remove: nothing raised inside reaches the statement that follows
StoreCatches(raised) == FALSE

\* scheduleTicketExpiration when a native call may throw: the notifications
\* registered before it stay registered
ScheduleWithFault(bag, ticketId, expiresAt, t, granted, fault) ==
    IF ~InitializeResult(granted) THEN [bag |-> bag, raised |-> FALSE, failed |-> TRUE]
    ELSE LET reg == Registered(InstantOf(expiresAt), t)
             thrown == FaultAt(fault) <= Len(reg)
             done == IF thrown THEN SubSeq(reg, 1, FaultAt(fault) - 1) ELSE reg
         IN  [bag |-> bag (+) SetToBag({[ticketId |-> ticketId, trigger |-> done[i]] :
                                            i \in DOMAIN done}),
              raised |-> ManagerCatches(thrown),
              failed |-> thrown]

\* the scheduled notifications of a ticket
TicketNotifications(bag, ticketId) == {n \in DOMAIN bag : n.ticketId = ticketId}

\* cancelTicketNotifications when a native call may throw; `first` is the
\* notification cancelled before the failure
CancelWithFault(bag, ticketId, fault, first) ==
    LET mine == TicketNotifications(bag, ticketId)
    IN  CASE fault = "list" -> [bag |-> bag, raised |-> ManagerCatches(TRUE), failed |-> TRUE]
          [] fault = "midway" /\ BagCardinality(bag) - BagCardinality(CancelTicketNotifications(bag, ticketId)) >= 2 ->
                [bag |-> bag (-) SetToBag({first}), raised |-> ManagerCatches(TRUE),
                 failed |-> TRUE]
          [] OTHER -> [bag |-> CancelTicketNotifications(bag, ticketId), raised |-> FALSE,
                       failed |-> FALSE]

\* the notification a failing cancellation may have cancelled first
FirstCancelled(bag, ticketId) ==
    IF TicketNotifications(bag, ticketId) = {} THEN {[ticketId |-> ticketId, trigger |-> 0]}
    ELSE TicketNotifications(bag, ticketId)

\* useTickets.add
AddWithFault(t, granted, fault) ==
    LET row == NewRow(t)
        db == InsertTicketOutcome(tickets, cinemas, row)
        s == IF fault = "select" THEN [bag |-> notifs, raised |-> TRUE, failed |-> TRUE]
             ELSE ScheduleWithFault(notifs, row.id, row.expiresAt, now, granted, fault)
        info == [db |-> db, failed |-> s.failed, id |-> row.id]
    IN  /\ Ready
        /\ steps' = steps + 1
        /\ IF db # "ok"
           THEN /\ result' = Outcome("add", "threw", "insert", info)
                /\ UNCHANGED <<tickets, notifs, isInitialized, items>>
           ELSE /\ CanSchedule(notifs, row.id, row.expiresAt, now)
                /\ tickets' = tickets \cup {StoredTicket(row)}
                /\ notifs' = s.bag
                /\ isInitialized' = IF fault = "select" THEN isInitialized
                                    ELSE InitializeResult(granted)
                /\ IF StoreCatches(s.raised)
                   THEN /\ result' = Outcome("add", "threw", "schedule", info)
                        /\ UNCHANGED items
                   ELSE /\ items' = tickets'
                        /\ result' = Outcome("add", "ok", "", info)
        /\ UNCHANGED <<cinemas, cinemaItems, now, sqlite, app, call, sync, sweep, backup>>

\* useTickets.markUsed
MarkUsedWithFault(id, fault, first) ==
    LET c == CancelWithFault(notifs, id, fault, first)
        info == [db |-> "ok", failed |-> c.failed, id |-> id]
    IN  /\ Ready
        /\ steps' = steps + 1
        /\ tickets' = {MarkRowUsed(r, id, now) : r \in tickets}
        /\ notifs' = c.bag
        /\ IF StoreCatches(c.raised)
           THEN /\ result' = Outcome("markUsed", "threw", "cancel", info)
                /\ UNCHANGED items
           ELSE /\ items' = tickets'
                /\ result' = Outcome("markUsed", "ok", "", info)
        /\ UNCHANGED <<cinemas, cinemaItems, isInitialized, now, sqlite, app, call, sync, sweep,
                       backup>>

\* useTickets.remove
RemoveWithFault(id, fault, first) ==
    LET c == CancelWithFault(notifs, id, fault, first)
        info == [db |-> "ok", failed |-> c.failed, id |-> id]
    IN  /\ Ready
        /\ steps' = steps + 1
        /\ notifs' = c.bag
        /\ IF StoreCatches(c.raised)
           THEN /\ result' = Outcome("remove", "threw", "cancel", info)
                /\ UNCHANGED <<tickets, items>>
           ELSE /\ tickets' = {r \in tickets : r.id # id}
                /\ items' = tickets'
                /\ result' = Outcome("remove", "ok", "", info)
        /\ UNCHANGED <<cinemas, cinemaItems, isInitialized, now, sqlite, app, call, sync, sweep,
                       backup>>

NextFaults ==
    \/ \E t \in {n \in NewTickets(now) : n.status = Undefined /\ n.usedAt = NoDate},
          granted \in BOOLEAN, fault \in ScheduleFaults : AddWithFault(t, granted, fault)
    \/ \E id \in TicketIds, fault \in CancelFaults :
          \E first \in FirstCancelled(notifs, id) : MarkUsedWithFault(id, fault, first)
    \/ \E id \in TicketIds, fault \in CancelFaults :
          \E first \in FirstCancelled(notifs, id) : RemoveWithFault(id, fault, first)

\* the home screen is mounted and the PENDING rows have their reminders
InitFaults ==
    /\ InitSync
    /\ notifs = EarlierReminders(tickets)

SpecFaults == InitFaults /\ [][NextFaults]_vars

-----------------------------------------------------------------------------
(* NotificationManager.initialize on the device the app runs on             *)

\* what initialize() meets: Device.isDevice, the status getPermissionsAsync
\* and requestPermissionsAsync answer, and whether the Android channel could
\* be set up
Devices ==
    {d \in [isDevice : BOOLEAN, existingStatus : {"granted", "undetermined"},
            status : {"granted", "denied"}, channel : BOOLEAN] :
        d.existingStatus = "granted" => d.status = "granted"}

\* an initialize() that skips the Device.isDevice test
InitializeAnywhere(device) ==
    /\ (IF device.existingStatus # "granted" THEN device.status ELSE device.existingStatus)
          = "granted"
    /\ device.channel

\* initialize() once isInitialized is false: the value it returns, which is
\* also the value isInitialized takes
Initialize(device) ==
    /\ device.isDevice
    /\ LET finalStatus == IF device.existingStatus # "granted" THEN device.status
                          ELSE device.existingStatus
       IN  finalStatus = "granted"
    /\ device.channel

\* scheduleTicketExpiration({ticketId, expiresAt}) on a given device
ScheduleOnDevice(ticketId, expiresAt, device) ==
    LET granted == Initialize(device)
    IN  /\ Ready
        /\ steps' = steps + 1
        /\ CanSchedule(notifs, ticketId, Date(expiresAt), now)
        /\ notifs' = ScheduleTicketExpiration(notifs, ticketId, Date(expiresAt), now, granted)
        /\ isInitialized' = InitializeResult(granted)
        /\ result' = Outcome("scheduleOn",
                             IF InitializeResult(granted) THEN "ok" ELSE "null",
                             ticketId, [expiresAt |-> expiresAt, at |-> now, device |-> device])
        /\ UNCHANGED <<tickets, cinemas, items, cinemaItems, now, sqlite, app, call, sync,
                       sweep, backup>>

NextDevice ==
    \/ \E id \in TicketIds, e \in {ThreeDays, ThreeDays + OneDay}, device \in Devices :
          ScheduleOnDevice(id, e, device)
    \/ Tick

SpecDevice == InitSched /\ [][NextDevice]_vars

-----------------------------------------------------------------------------
(* useNotificationScheduler: the effect runs again while an earlier run of  *)
(* syncNotifications is still waiting (src/App_backup.tsx)                  *)

\* the runs of syncNotifications that have not returned, oldest first
SyncRuns == IF sync = Idle THEN <<>> ELSE sync.runs

Running(runs) == IF runs = <<>> THEN Idle ELSE [pc |-> "runs", runs |-> runs]

\* run i goes on as `run`, or has returned
GoesOn(i, run) ==
    Running(IF run = Idle
            THEN SubSeq(SyncRuns, 1, i - 1) \o SubSeq(SyncRuns, i + 1, Len(SyncRuns))
            ELSE [SyncRuns EXCEPT ![i] = run])

\* useEffect(..., [tickets, cinemas]): the effect runs with the lists of this
\* render and calls syncNotifications when cinemas are loaded
EffectRuns ==
    /\ CanStart
    /\ call = Idle /\ sweep = Idle
    /\ Len(SyncRuns) < 2
    /\ cinemaItems # {}
    /\ steps' = steps + 1
    /\ sync' = Running(Append(SyncRuns, [pc |-> "read", snap |-> items]))
    /\ UNCHANGED <<tickets, cinemas, items, cinemaItems, notifs, isInitialized, now,
                   sqlite, app, result, call, sweep, backup>>

\* getScheduledNotifications() answers run i
RunReads(i) ==
    /\ SyncRuns[i].pc = "read"
    /\ sync' = GoesOn(i, SyncLoop(SyncTodo(SyncRuns[i].snap, notifs),
                                  SyncOrphans(SyncRuns[i].snap, notifs)))
    /\ UNCHANGED <<tickets, cinemas, items, cinemaItems, notifs, isInitialized, now,
                   sqlite, app, result, call, sweep, backup, steps>>

\* run i calls scheduleTicketExpiration for a ticket it found without reminder
RunSchedules(i, granted) ==
    /\ SyncRuns[i].pc = "loop"
    /\ \E t \in SyncRuns[i].todo :
          /\ CanSchedule(notifs, t.id, t.expiresAt, now)
          /\ notifs' = ScheduleTicketExpiration(notifs, t.id, t.expiresAt, now, granted)
          /\ isInitialized' = InitializeResult(granted)
          /\ sync' = GoesOn(i, SyncLoop(SyncRuns[i].todo \ {t}, SyncRuns[i].orphans))
    /\ UNCHANGED <<tickets, cinemas, items, cinemaItems, now, sqlite, app, result, call,
                   sweep, backup, steps>>

\* run i calls cancelTicketNotifications for an orphan
RunCancels(i) ==
    /\ SyncRuns[i].pc = "loop"
    /\ SyncRuns[i].todo = {}
    /\ \E id \in SyncRuns[i].orphans :
          /\ notifs' = CancelTicketNotifications(notifs, id)
          /\ sync' = GoesOn(i, SyncLoop({}, SyncRuns[i].orphans \ {id}))
    /\ UNCHANGED <<tickets, cinemas, items, cinemaItems, isInitialized, now, sqlite, app,
                   result, call, sweep, backup, steps>>

\* the home screen is mounted; the reminders scheduled are reminders of
\* PENDING rows, and some PENDING rows have none
InitRuns ==
    /\ InitSync
    /\ \E T \in SUBSET tickets : notifs = EarlierReminders(T)

NextRuns ==
    \/ EffectRuns
    \/ \E i \in DOMAIN SyncRuns : RunReads(i)
    \/ \E i \in DOMAIN SyncRuns, granted \in BOOLEAN : RunSchedules(i, granted)
    \/ \E i \in DOMAIN SyncRuns : RunCancels(i)
    \/ \E t \in NewTickets(now), granted \in BOOLEAN : AddTicket(t, granted)
    \/ \E id \in TicketIds, granted \in BOOLEAN :
          \E r \in {x \in tickets : x.id = id} : UpdateCall(id, InstantOf(r.expiresAt), granted)

SpecRuns == InitRuns /\ [][NextRuns]_vars

-----------------------------------------------------------------------------
(* importData when a statement of the import throws                         *)

\* what can throw once the user has confirmed: reading or parsing the file,
\* db.delete(tickets), db.delete(cinemas); an insert that throws is caught
\* row by row
ImportFaults == {"read", "deleteTickets", "deleteCinemas"}

\* performImport when a delete throws: what was done before stays done, and
\* the error is thrown again
PerformImportWithFault(data, replaceExisting, fault) ==
    CASE replaceExisting /\ fault = "deleteTickets" ->
            [tickets |-> tickets, cinemas |-> cinemas, thrown |-> TRUE]
      [] replaceExisting /\ fault = "deleteCinemas" ->
            [tickets |-> {}, cinemas |-> cinemas, thrown |-> TRUE]
      [] OTHER ->
            [tickets |-> PerformImport(data, replaceExisting).tickets,
             cinemas |-> PerformImport(data, replaceExisting).cinemas,
             thrown |-> FALSE]

\* importData on the file picked, confirmed by the user
ImportDataWithFault(data, replaceExisting, fault) ==
    /\ Ready
    /\ steps' = steps + 1
    /\ IF /\ fault # "read"
          /\ ValidateBackupData(data)
          /\ IsCompatibleVersion(data.version.val)
       THEN LET after == PerformImportWithFault(data, replaceExisting, fault)
            IN  /\ tickets' = after.tickets
                /\ cinemas' = after.cinemas
                /\ result' = Outcome(ImportOp(replaceExisting),
                                     IF after.thrown THEN "false" ELSE "true",
                                     FileKind(data), fault)
       ELSE /\ result' = Outcome(ImportOp(replaceExisting), "false",
                                 IF fault = "read" THEN "" ELSE FileKind(data), fault)
            /\ UNCHANGED <<tickets, cinemas>>
    /\ UNCHANGED <<items, cinemaItems, notifs, isInitialized, now, sqlite, app, call, sync,
                   sweep, backup>>

NextImportFaults ==
    \/ \E f \in BackupFiles : ReceiveFile(f)
    \/ \E replaceExisting \in BOOLEAN, answer \in Answers : ImportFile(replaceExisting, answer)
    \/ \E replaceExisting \in BOOLEAN, fault \in ImportFaults :
          backup # NoFile /\ ImportDataWithFault(backup, replaceExisting, fault)

SpecImportFaults == Init /\ [][NextImportFaults]_vars

-----------------------------------------------------------------------------
\* Properties of the database and the stores

UniqueCodeAndQr ==
    \A a, b \in tickets : a # b => /\ a.id # b.id
                                  /\ a.code # b.code
                                  /\ a.qrPayload # b.qrPayload

\* an add whose code or QR payload a stored row already has
DuplicateAdd ==
    /\ result'.op = "add"
    /\ \E r \in tickets : r.code = result'.arg \/ r.qrPayload = result'.info

\* C1: no two stored tickets share a code or a QR payload, and an add whose
\* code or QR payload already exists is rejected: it throws and the table
\* stays as it was.
C1_UniqueCodeAndQr ==
    /\ []UniqueCodeAndQr
    /\ [][DuplicateAdd => (result'.out = "threw" /\ tickets' = tickets)]_vars

\* an add was rejected although the foreign key was not enforced (so the only
\* thing that can have rejected it is a duplicate): its code was new and its
\* QR payload was the one of a stored row
C1_Witness ==
    /\ result.op = "add"
    /\ result.out = "threw"
    /\ ~sqlite.foreignKeys
    /\ Cardinality(tickets) = 2
    /\ \E r \in tickets : r.code # result.arg /\ r.qrPayload = result.info

\* a stored USED ticket is PENDING after the step
UsedTurnsPending ==
    \E r \in tickets, q \in tickets' :
        r.id = q.id /\ r.status = "USED" /\ q.status = "PENDING"

ReplaceImported == result'.op = "importReplace" /\ result'.out = "true"

Removed(id) == result'.op = "remove" /\ result'.arg = id /\ id \notin Ids(tickets')

C6_TicketHasCinema == \A r \in tickets : r.cinemaId \in Ids(cinemas)

\* C7: a ticket has a non-null usedAt only if its status is USED, after any
\* sequence of add (with any optional status and usedAt), markUsed and import.
C7_UsedAtOnlyWhenUsed == \A r \in tickets : r.usedAt # NullDate => r.status = "USED"

-----------------------------------------------------------------------------
\* Properties of the reminders

\* markUsed or remove returns
CallReturns == call.pc = "refresh" /\ call' = Idle

\* C3: when markUsed or remove completes for a ticket id, no reminder for that
\* id is scheduled, whatever the sync hook and the cleanup sweep did in
\* between.
C3_NoReminderAfterCall ==
    [][CallReturns => \A n \in DOMAIN notifs' : n.ticketId # call.id]_vars

\* the reminders a step registers, with their number of copies
NewlyRegistered == notifs' (-) notifs

\* C4: scheduleTicketExpiration never registers a reminder whose fire time is
\* at or before the time of scheduling: every reminder a step registers has
\* trigger > now.
C4_OnlyFutureReminders ==
    [][\A n \in DOMAIN NewlyRegistered : n.trigger > now]_vars

\* a call was made at the very instant T - 3 days: that reminder was left
\* out, the one at T - 1 day was registered
C4_Witness ==
    /\ result.op = "schedule"
    /\ result.out = "ok"
    /\ result.info.expiresAt - 72 = result.info.at
    /\ Copies(notifs, [ticketId |-> result.arg, trigger |-> result.info.expiresAt - 72]) = 0
    /\ Copies(notifs, [ticketId |-> result.arg, trigger |-> result.info.expiresAt - 24]) > 0

\* a direct call of scheduleTicketExpiration got past initialize
Scheduled == steps' = steps + 1 /\ result'.op = "schedule" /\ result'.out = "ok"

\* the instants T - 3 days, T - 1 day and T - 2 hours (in hours) that are
\* later than t
StillAhead(T, t) == {x \in {T - 3 * 24, T - 24, T - 2} : x > t}

SweepEnds == sweep # Idle /\ sweep' = Idle

-----------------------------------------------------------------------------
\* Properties of the backups

\* the tables hold as many rows as the metadata of the file counts
CountsAsInMetadata ==
    LET metadata == backup.metadata.val
    IN  /\ Cardinality(tickets) = metadata.totalTickets
        /\ Cardinality(cinemas) = metadata.totalCinemas
        /\ Cardinality({r \in tickets : r.status = "PENDING"}) = metadata.pendingTickets
        /\ Cardinality({r \in tickets : r.status = "USED"}) = metadata.usedTickets

\* C5: after export and a merge import of that file into an empty database the
\* row counts equal the file's metadata (totalTickets, totalCinemas,
\* pendingTickets, usedTickets). Stated for the driver that is kindest to the
\* import: it stores the file's ISO date strings and enforces no foreign key.
C5_RoundTripCounts ==
    (/\ result.op = "importMerge"
     /\ result.out = "true"
     /\ sqlite.isoDates
     /\ ~sqlite.foreignKeys) => CountsAsInMetadata

\* importData was called and has returned
ImportReturns == steps' = steps + 1 /\ result'.op \in {"importMerge", "importReplace"}

\* the file is not a backup envelope or has another version, or the user did
\* not confirm
Turned == result'.arg \in {"shape", "version"} \/ result'.info \in {"cancel", "refuse"}

\* C10: importData on a file whose envelope fails the shape validation or whose
\* version is not the supported one returns false and leaves both tables as
\* they were; nothing is inserted or deleted before both checks and the user's
\* confirmation have passed.
C10_RejectedImportChangesNothing ==
    [][(ImportReturns /\ Turned) =>
          (result'.out = "false" /\ tickets' = tickets /\ cinemas' = cinemas)]_vars

\* a replace import of a file of version 0.9 was tried and confirmed on a
\* database with tickets: it returned false and the tickets are there
C10_Witness ==
    /\ result.op = "importReplace"
    /\ result.arg = "version"
    /\ result.info = "confirm"
    /\ result.out = "false"
    /\ tickets # {}

\* importData(false) has run to the end and returned true
MergeImported == steps' = steps + 1 /\ result'.op = "importMerge" /\ result'.out = "true"

\* the file's ticket row r has the id, the code or the QR payload of a stored row
TicketRowConflicts(r) ==
    \E e \in tickets : e.id = r.id \/ e.code = r.code \/ e.qrPayload = r.qrPayload

\* the file's cinema row c has the id or the slug of a stored row
CinemaRowConflicts(c) == \E e \in cinemas : e.id = c.id \/ e.slug = c.slug

\* C11: a merge import deletes and modifies no row that was stored before:
\* every row of the file that conflicts with a stored id or unique key is
\* skipped, every other row of the file is inserted, and the rows stored
\* before keep their values.  Stated for the driver that is kindest to the
\* import (ISO date strings stored, no foreign key enforced).
C11_MergeImportFrame ==
    [][(MergeImported /\ sqlite.isoDates /\ ~sqlite.foreignKeys) =>
          /\ tickets \subseteq tickets'
          /\ cinemas \subseteq cinemas'
          /\ \A r \in backup.tickets.val :
                IF TicketRowConflicts(r)
                THEN tickets' \ tickets = {q \in tickets' \ tickets : q.id # r.id}
                ELSE \E q \in tickets' : q.id = r.id /\ q.code = r.code
          /\ \A c \in backup.cinemas.val :
                IF CinemaRowConflicts(c)
                THEN cinemas' \ cinemas = {q \in cinemas' \ cinemas : q.id # c.id}
                ELSE \E q \in cinemas' : q.id = c.id /\ q.slug = c.slug]_vars

\* the stored row q is the file's ticket row r
SameTicket(q, r) ==
    /\ q.id = r.id
    /\ q.code = r.code
    /\ q.qrPayload = r.qrPayload
    /\ q.cinemaId = r.cinemaId
    /\ q.status = r.status

\* C12: a replace import clears both tables and inserts the rows of the file:
\* after importData(true) has returned true the cinemas table holds exactly
\* the file's cinemas, the tickets table exactly the file's tickets, and no
\* row from before remains.  Stated for the driver that is kindest to the
\* import (ISO date strings stored, no foreign key enforced).
C12_ReplaceImportExact ==
    [][(steps' = steps + 1 /\ ReplaceImported /\ sqlite.isoDates /\ ~sqlite.foreignKeys) =>
          /\ Ids(tickets') = {r.id : r \in backup.tickets.val}
          /\ \A r \in backup.tickets.val : \E q \in tickets' : SameTicket(q, r)
          /\ Ids(cinemas') = {c.id : c \in backup.cinemas.val}
          /\ \A c \in backup.cinemas.val : \E q \in cinemas' : q.id = c.id /\ q.slug = c.slug]_vars


\* the data e is the data d with one more of the five weighted fields found
OneMoreField(d, e) ==
    \E f \in {"code", "expirationDate", "cinemaName", "showTime", "price"} :
        /\ ~Found(d[f])
        /\ Found(e[f])
        /\ \A g \in DOMAIN d \ {f} : e[g] = d[g]

\* C13: the confidence score lies within [0, 1], and it is strictly greater
\* for data with one more of the fields code, expiration date, cinema name,
\* show time and price found, all else equal, with or without the QR bonus.
C13_ConfidenceRangeAndIncrease ==
    [][result'.op = "calculateConfidence" =>
          /\ ~Less(result'.out, Double(0, 0))
          /\ ~Less(Double(1000, 0), result'.out)
          /\ (result.op = "calculateConfidence" /\ OneMoreField(result.arg, result'.arg))
                => Less(result.out, result'.out)]_vars

\* validateExtractedData has returned, called directly or by the modal
Validated == result.op \in {"validateExtractedData", "handleUseExtractedData"}

\* C19: validateExtractedData reports isValid exactly when it found no
\* validation error and the confidence is at least 0.30; and for data without
\* validation errors the modal has shown its 'Analyse incomplète' warning
\* exactly when isValid is false.
C19_ValidFromThreshold ==
    /\ Validated =>
          result.out.isValid = (/\ result.out.validationErrors = <<>>
                                /\ ~Less(result.arg.confidence, Double(300, 0)))
    /\ (result.op = "handleUseExtractedData" /\ result.out.validationErrors = <<>>) =>
          (result.info = ~result.out.isValid)

\* C14: an add with a code or a QR payload that a stored ticket already has
\* fails with an error thrown to the caller; the tickets table and the items
\* list stay as they were, and no reminder is scheduled or cancelled.
C14_DuplicateAddFails ==
    [][DuplicateAdd =>
          /\ result'.out = "threw"
          /\ tickets' = tickets
          /\ items' = items
          /\ notifs' = notifs
          /\ isInitialized' = isInitialized]_vars

\* an add with the code of a stored ticket and a QR payload of its own has
\* thrown, on a driver that enforces no foreign key, with the list loaded
C14_Witness ==
    /\ result.op = "add"
    /\ result.out = "threw"
    /\ ~sqlite.foreignKeys
    /\ items = tickets
    /\ \E r \in tickets : r.code = result.arg
    /\ \A r \in tickets : r.qrPayload # result.info

\* a statement of the database setup has just been rejected
SetupFailed == result'.op = "setup" /\ result'.out = "threw"

\* C15: when a statement of the startup setup fails, App's error is set and
\* isReady is not; from then on the error stays, isReady stays false and the
\* navigation is never rendered; isReady and error are never both set; and
\* the navigation is rendered, and a store call made, only when every
\* statement has gone through.
C15_FailedSetupNeverReady ==
    /\ [][SetupFailed => (app'.error # Null /\ ~app'.isReady)]_vars
    /\ [][app.error # Null => (app'.error = app.error /\ ~app'.isReady /\ ~Usable')]_vars
    /\ [](~(app.isReady /\ app.error # Null))
    /\ [](Usable => app = SetUp)
    /\ [][steps' # steps => app = SetUp]_vars

\* the second statement was rejected after the first went through: the error
\* screen is shown, on a device that has tickets stored
C15_Witness ==
    /\ result.op = "setup"
    /\ result.arg = SetupStatements[2]
    /\ app.error = "database is locked"
    /\ ~app.isReady
    /\ Screen(app) = "Erreur de démarrage"
    /\ tickets # {}

\* C16: in the file exportData has written, whatever the options,
\* metadata.totalTickets is the number of tickets in data.tickets,
\* metadata.totalCinemas the number of cinemas in data.cinemas, and
\* pendingTickets + usedTickets is totalTickets.
C16_MetadataCounts ==
    result.op = "export" =>
        LET metadata == backup.metadata.val
        IN  /\ metadata.totalTickets = Cardinality(backup.tickets.val)
            /\ metadata.totalCinemas = Cardinality(backup.cinemas.val)
            /\ metadata.pendingTickets + metadata.usedTickets = metadata.totalTickets

\* an export that left out a used or expired ticket and the cinemas: one of
\* the two stored tickets is in the file, and none of the stored cinemas
C16_Witness ==
    /\ result.op = "export"
    /\ Cardinality(tickets) = 2
    /\ backup.metadata.val.totalTickets = 1
    /\ \E r \in tickets : r.status = "PENDING" /\ InstantOf(r.expiresAt) <= now
    /\ cinemas # {}
    /\ backup.cinemas.val = {}

\* no two stored cinemas share a slug
UniqueSlug == \A a, b \in cinemas : a # b => a.slug # b.slug

\* a cinema was saved from the form, or added to the store, with a slug that a
\* stored cinema already has
DuplicateSlugAdd ==
    /\ \/ result'.op = "saveCinema" /\ result'.out # "invalid"
       \/ result'.op = "addCinema"
    /\ \E r \in cinemas : r.slug = result'.info

\* C17: whatever cinemas are added, initialised by default or imported, no two
\* stored cinemas share a slug; and adding a cinema whose generated slug is
\* already stored ends with an error and leaves the cinemas table as it was.
C17_UniqueSlug ==
    /\ []UniqueSlug
    /\ [][DuplicateSlugAdd =>
             (result'.out \in {"alert", "threw"} /\ cinemas' = cinemas)]_vars

\* the form was saved with the name 'ugc  cine cite!' while UGC Ciné Cité was
\* stored: the generated slug is the stored one, and the alert was shown
C17_Witness ==
    /\ result.op = "saveCinema"
    /\ result.out = "alert"
    /\ result.arg[1] = "u"
    /\ result.info = "ugc-cine-cite"
    /\ \E r \in cinemas : r.id = "c1" /\ r.slug = result.info

\* the form f has every required field, and its date is a JJ/MM/AAAA date
\* whose day has not begun before the instant t
FormComplete(f, t) ==
    /\ Len(Trim(f.code)) >= 3
    /\ Trim(f.qrPayload) # <<>>
    /\ Trim(f.cinemaId) # <<>>
    /\ f.expiresAt # <<>>
    /\ f.expiresAt[1] = "JJ/MM/AAAA"
    /\ f.expiresAt[2] * OneDay >= t
    /\ f.sourceFileUri # ""

\* C18: the add-ticket form stores a ticket only when the code has at least 3
\* characters, the QR payload is not empty, a cinema is selected, the date is
\* a JJ/MM/AAAA date that is not in the past and a file was imported; when a
\* field is missing or invalid, add is not called and the table, the list
\* and the reminders stay as they were; and a ticket stored through the form
\* is PENDING with usedAt null.
C18_FormStoresOnlyValid ==
    [][(steps' = steps + 1 /\ result'.op = "save") =>
          /\ tickets' # tickets => FormComplete(result'.arg, now)
          /\ ~FormComplete(result'.arg, now) =>
                /\ result'.out = "invalid"
                /\ tickets' = tickets
                /\ items' = items
                /\ notifs' = notifs
          /\ \A r \in tickets' \ tickets :
                /\ r.id = result'.info
                /\ r.status = "PENDING"
                /\ r.usedAt = NullDate
                /\ InstantOf(r.expiresAt) >= now]_vars

\* a form complete but for its date, which is the day the clock started,
\* was saved a day and a half later: nothing was stored
C18_Witness ==
    /\ result.op = "save"
    /\ result.out = "invalid"
    /\ result.arg.expiresAt = <<"JJ/MM/AAAA", 0>>
    /\ FormComplete([result.arg EXCEPT !.expiresAt = <<"JJ/MM/AAAA", 3>>], now)
    /\ now = OneDay + OneDay \div 2
    /\ \A r \in tickets : r.id # result.info

\* C20: once every add, markUsed, remove and refresh call that was made has
\* returned, the items list of the ticket store is the tickets table and the
\* items list of the cinema store is the cinemas table, however the calls
\* overlapped (in a session that began with both lists loaded).
C20_ListsMatchTablesWhenIdle ==
    call = Idle => (items = tickets /\ cinemaItems = cinemas)

\* two calls have overlapped and returned, the last of them a refresh that
\* was made before a ticket was removed: the table has lost a row since the
\* session began
C20_Witness ==
    /\ call = Idle
    /\ steps = MaxSteps
    /\ result.op = "refresh"
    /\ result.arg = 1
    /\ result.info
    /\ Cardinality(tickets) = 1
    /\ items = tickets

-----------------------------------------------------------------------------
\* Properties of a run of the notification sync

\* a run of syncNotifications has completed
SyncCompletes == steps' = steps + 1 /\ result'.op = "sync"

\* every scheduled reminder belongs to a PENDING ticket of the store
OnlyPendingReminders ==
    \A n \in DOMAIN notifs' : \E t \in items' : t.id = n.ticketId /\ t.status = "PENDING"

\* the PENDING tickets of the store that have a reminder instant ahead
PendingAhead ==
    {t \in items' : t.status = "PENDING" /\ StillAhead(InstantOf(t.expiresAt), now) # {}}

-----------------------------------------------------------------------------
\* Properties of the store methods when the notification service fails

\* add, markUsed or remove has returned after its scheduling or cancellation
\* failed, the database statement itself being accepted
ReturnsAfterFailure(op) ==
    /\ steps' = steps + 1
    /\ result'.op = op
    /\ result'.info.db = "ok"
    /\ result'.info.failed

\* C22: a failure of reminder scheduling or cancellation never makes add,
\* markUsed or remove fail: the insert, update or delete is applied, the
\* in-memory list is refreshed, and the operation completes without error.
C22_NotificationFailureHarmless ==
    [][/\ ReturnsAfterFailure("add") =>
             /\ result'.out = "ok"
             /\ \E r \in tickets' \ tickets : r.id = result'.info.id
             /\ items' = tickets'
       /\ ReturnsAfterFailure("markUsed") =>
             /\ result'.out = "ok"
             /\ \A r \in tickets' : r.id = result'.info.id => r.status = "USED"
             /\ items' = tickets'
       /\ ReturnsAfterFailure("remove") =>
             /\ result'.out = "ok"
             /\ \A r \in tickets' : r.id # result'.info.id
             /\ items' = tickets']_vars

\* remove has returned without error although cancellation failed midway: the
\* row is gone from the table and the list, one reminder of it is left
C22_Witness ==
    /\ result.op = "remove"
    /\ result.out = "ok"
    /\ result.info.failed
    /\ \A r \in tickets \cup items : r.id # result.info.id
    /\ \E n \in DOMAIN notifs : n.ticketId = result.info.id

-----------------------------------------------------------------------------
\* Properties of the initialisation of the notifications

\* scheduleTicketExpiration has returned
ScheduleReturns == steps' = steps + 1 /\ result'.op = "scheduleOn"

\* the app runs on a physical device and the permission is granted
DeviceAndPermission(device) ==
    /\ device.isDevice
    /\ device.existingStatus = "granted" \/ device.status = "granted"

\* C23: scheduleTicketExpiration registers no reminder unless notification
\* initialisation has succeeded (physical device and permission granted):
\* when initialisation fails it returns null and the scheduled reminders are
\* unchanged, and isInitialized becomes true only after permission was granted.
C23_NoReminderWithoutInitialisation ==
    [][ScheduleReturns =>
          LET device == result'.info.device
          IN  /\ (~isInitialized /\ ~DeviceAndPermission(device)) =>
                    /\ result'.out = "null"
                    /\ notifs' = notifs
                    /\ ~isInitialized'
              /\ notifs' # notifs => isInitialized'
              /\ (~isInitialized /\ isInitialized') => DeviceAndPermission(device)]_vars

\* a call made on an emulator with the permission granted has returned null
\* and left nothing scheduled, three instants being ahead
C23_Witness ==
    /\ result.op = "scheduleOn"
    /\ result.out = "null"
    /\ ~result.info.device.isDevice
    /\ result.info.device.existingStatus = "granted"
    /\ result.info.expiresAt - 72 > result.info.at
    /\ notifs = EmptyBag
    /\ ~isInitialized

-----------------------------------------------------------------------------
\* Properties of overlapping runs of the notification sync

\* C24: at every moment a ticket has at most three scheduled reminders, one
\* per offset: no sequence or interleaving of add, the sync hook (two
\* overlapping runs included) and updateTicketNotifications registers a
\* duplicate reminder for the same ticket and fire time.
C24_NoDuplicateReminder ==
    /\ \A n \in DOMAIN notifs : notifs[n] = 1
    /\ \A id \in TicketIds : Cardinality({n \in DOMAIN notifs : n.ticketId = id}) <= 3

-----------------------------------------------------------------------------
\* Properties of what the cleanup sweep leaves alone

\* the sweep cancels the reminders of a ticket
SweepCancels == sweep.pc = "cancel" /\ sweep' # sweep

\* C25: the cleanup sweep cancels only reminders whose fire time is more than
\* 24 hours in the past: every scheduled reminder whose fire time is in the
\* future or less than 24 hours before the sweep is still scheduled after it.
C25_SweepKeepsFreshReminders ==
    [][SweepCancels =>
          \A n \in DOMAIN notifs :
              n.trigger >= sweep.at - 24 => Copies(notifs', n) = Copies(notifs, n)]_vars

-----------------------------------------------------------------------------
\* Properties of an import that fails

\* C26: whenever importData returns false (picker cancelled, invalid file,
\* incompatible version, confirmation refused, or an error raised during the
\* import itself), the tickets and cinemas tables are exactly as before the
\* call, in merge mode and in replace mode.
C26_FailedImportChangesNothing ==
    [][(ImportReturns /\ result'.out = "false") =>
          (tickets' = tickets /\ cinemas' = cinemas)]_vars
====
